---- MODULE Spec2Model ----
(***************************************************************************)
(* Provisioning state machine of the Lovi firmware.                        *)
(*                                                                         *)
(* Three builds are modelled:                                              *)
(*   fw = "portal" : lib/lovi-captive-portal (CaptivePortal with a Device  *)
(*                   adapter, WiFiManager callbacks and the JSON API),      *)
(*                   started by CaptivePortal::begin();                     *)
(*   fw = "test"   : the same library as devices/test_device/main.cpp       *)
(*                   starts it;                                             *)
(*   fw = "legacy" : devices/presence_gen_one/main.cpp on top of            *)
(*                   lib/captiveportal (blocking connectToWiFi loop).       *)
(*                                                                         *)
(* Every handler is a function from state record to state record, so that  *)
(* a handler that calls another handler is their composition; an action    *)
(* installs the record computed by the whole handler.  The variable trace  *)
(* holds the externally visible effects of the last operation, in order.   *)
(***************************************************************************)
EXTENDS Integers, Sequences, FiniteSets, TLC

\* Polling ticks before a connection attempt is given up.
WIFI_TIMEOUT == 30

\* Bound: connection attempts started per boot.
MaxAttempts == 3

\* Stored SSIDs the EEPROM may hold ("" = unconfigured).
SSIDs == {"", "home"}

\* lib/captiveportal ConfigManager: sizes of _ssid and _password, and the
\* EEPROM size setup() asks for.
SsidSize == 32
PasswordSize == 64
EepromSize == 512

\* Bound: how many bytes longer than its field an input string gets.
MaxOver == 2

VARIABLES
    fw,                 \* which firmware build runs
    pc,                 \* "constructed" | "connecting" | "loop" | "crashed"
    device,             \* portal: a Device adapter is attached (device != nullptr)
    eepromSsid,         \* SSID persisted in EEPROM
    cfgSsid,            \* ConfigManager's in-RAM SSID
    wifiMode,           \* WiFi.getMode(): "OFF" | "STA" | "AP" | "AP_STA"
    apActive,           \* soft access point is up
    staBegun,           \* WiFi.begin() has been called
    linkUp,             \* WiFi.status() == WL_CONNECTED
    configMode,         \* CaptivePortal::configMode / _configMode
    deviceInitialized,  \* CaptivePortal::deviceInitialized
    ledPattern,         \* pattern last given to the LED controller
    webStarted,         \* webServer.begin() done
    dnsRunning,         \* DNS redirector is started
    dnsAddr,            \* address the DNS redirector was started with
    apAddr,             \* WiFi.softAPIP(): the access point's own address
    mdnsStarted,        \* MDNS.begin() succeeded
    mdnsHost,           \* hostname MDNS.begin() was given
    wifiHost,           \* hostname given to wifiManager.setHostname()
    wmState,            \* WiFiManager: "IDLE" | "CONNECTING" | "CONNECTED" | "FAILED"
    wmTicks,            \* WiFiManager: polls of the current attempt without link
    devMode,            \* last mode notification the Device got: "none" | "config" | "normal"
    attempts,           \* connection attempts started since boot
    cfgExitDone,        \* history: a connected event has left CONFIG since the last CONFIG entry
    resp,               \* last HTTP response sent
    served,             \* the HTTP request the last operation served
    trace,              \* effects of the last operation, in order
    started,            \* legacy: CaptivePortal::_started
    allocs,             \* legacy: objects allocated per collaborator pointer
    timeout,            \* legacy: connectToWiFi's loop counter
    devStarted,         \* legacy: Device::_mdnsStarted / _apiServerStarted
    mem,                \* ConfigManager object, byte by byte: _ssid then _password
    eeprom,             \* EEPROM content, byte by byte
    cfgArgs,            \* arguments of the last setSSID / setPassword calls
    core                \* lovi-core objects: Device, APIServer, MDNSAdvertiser

vars == <<fw, pc, device, eepromSsid, cfgSsid, wifiMode, apActive, staBegun, linkUp,
          configMode, deviceInitialized, ledPattern, webStarted,
          dnsRunning, dnsAddr, apAddr, mdnsStarted, mdnsHost, wifiHost, wmState, wmTicks,
          devMode, attempts, cfgExitDone, resp, served, trace, started, allocs, timeout, devStarted,
          mem, eeprom, cfgArgs, core>>

\* The current state as one record.
Cur ==
    [fw |-> fw, pc |-> pc, device |-> device, eepromSsid |-> eepromSsid,
     cfgSsid |-> cfgSsid, wifiMode |-> wifiMode, apActive |-> apActive,
     staBegun |-> staBegun, linkUp |-> linkUp, configMode |-> configMode,
     deviceInitialized |-> deviceInitialized,
     ledPattern |-> ledPattern, webStarted |-> webStarted, dnsRunning |-> dnsRunning,
     dnsAddr |-> dnsAddr, apAddr |-> apAddr,
     mdnsStarted |-> mdnsStarted, mdnsHost |-> mdnsHost, wifiHost |-> wifiHost,
     wmState |-> wmState, wmTicks |-> wmTicks,
     devMode |-> devMode, attempts |-> attempts, cfgExitDone |-> cfgExitDone,
     resp |-> resp, served |-> served, trace |-> trace, started |-> started,
     allocs |-> allocs,
     timeout |-> timeout, devStarted |-> devStarted]

\* The next state is the record s.
Install(s) ==
    /\ fw' = s.fw /\ pc' = s.pc /\ device' = s.device
    /\ eepromSsid' = s.eepromSsid /\ cfgSsid' = s.cfgSsid
    /\ wifiMode' = s.wifiMode /\ apActive' = s.apActive
    /\ staBegun' = s.staBegun /\ linkUp' = s.linkUp
    /\ configMode' = s.configMode /\ deviceInitialized' = s.deviceInitialized
    /\ ledPattern' = s.ledPattern
    /\ webStarted' = s.webStarted /\ dnsRunning' = s.dnsRunning
    /\ dnsAddr' = s.dnsAddr /\ apAddr' = s.apAddr
    /\ mdnsStarted' = s.mdnsStarted /\ mdnsHost' = s.mdnsHost /\ wifiHost' = s.wifiHost
    /\ wmState' = s.wmState /\ wmTicks' = s.wmTicks
    /\ devMode' = s.devMode /\ attempts' = s.attempts /\ cfgExitDone' = s.cfgExitDone
    /\ resp' = s.resp /\ served' = s.served /\ trace' = s.trace /\ started' = s.started
    /\ allocs' = s.allocs /\ timeout' = s.timeout /\ devStarted' = s.devStarted
    /\ UNCHANGED <<mem, eeprom, cfgArgs, core>>

NoResp == [code |-> 0, ctype |-> "", body |-> [kind |-> "none"]]
NoReq == [method |-> "NONE", api |-> FALSE, name |-> "", suffix |-> "", body |-> "none"]
\* Addresses: none, the access point's (apIP, 192.168.4.1, which is also the
\* default of WiFi.softAP()), the station's.
NoAddr == "0.0.0.0"
ApAddress == "192.168.4.1"
StaAddress == "sta-ip"
NoAllocs == [configManager |-> 0, ledController |-> 0, webServer |-> 0, dnsServer |-> 0]

\* State after the constructors have run (RAM cleared, radio off), for a given
\* build, adapter and EEPROM content.
Constructed(f, d, ssid) ==
    [fw |-> f, pc |-> "constructed", device |-> d, eepromSsid |-> ssid,
     cfgSsid |-> "", wifiMode |-> "OFF", apActive |-> FALSE, staBegun |-> FALSE,
     linkUp |-> FALSE, configMode |-> FALSE, deviceInitialized |-> FALSE,
     ledPattern |-> "NONE", webStarted |-> FALSE,
     dnsRunning |-> FALSE, dnsAddr |-> NoAddr, apAddr |-> NoAddr,
     mdnsStarted |-> FALSE, mdnsHost |-> <<>>, wifiHost |-> <<>>,
     wmState |-> "IDLE", wmTicks |-> 0,
     devMode |-> "none", attempts |-> 0, cfgExitDone |-> FALSE, resp |-> NoResp,
     served |-> NoReq,
     trace |-> <<>>, started |-> FALSE, allocs |-> NoAllocs, timeout |-> 0,
     devStarted |-> FALSE]

----------------------------------------------------------------------------
\* Helpers on traces.

Emit(s, e) == [s EXCEPT !.trace = Append(@, e)]
Has(t, e) == \E i \in DOMAIN t : t[i] = e
Count(t, e) == Cardinality({i \in DOMAIN t : t[i] = e})
\* e occurs in t and every occurrence of f comes after the first e
Before(t, e, f) ==
    \E i \in DOMAIN t : t[i] = e /\ \A j \in DOMAIN t : t[j] = f => i < j
OpIs(t, name) == Len(t) > 0 /\ t[1] = name

\* Strings are sequences of characters.  String::replace(" ", "-") and
\* String::toLowerCase() as begin() and onWiFiConnected() apply them.
UpperCase == <<"A", "B", "C", "D", "E", "F", "G", "H", "I", "J", "K", "L", "M",
               "N", "O", "P", "Q", "R", "S", "T", "U", "V", "W", "X", "Y", "Z">>
LowerCase == <<"a", "b", "c", "d", "e", "f", "g", "h", "i", "j", "k", "l", "m",
               "n", "o", "p", "q", "r", "s", "t", "u", "v", "w", "x", "y", "z">>
ToLower(c) ==
    IF \E i \in DOMAIN UpperCase : UpperCase[i] = c
    THEN LowerCase[CHOOSE i \in DOMAIN UpperCase : UpperCase[i] = c]
    ELSE c
ReplaceSpaces(str) == [i \in DOMAIN str |-> IF str[i] = " " THEN "-" ELSE str[i]]
ToLowerCase(str) == [i \in DOMAIN str |-> ToLower(str[i])]
Hostname(name) == ToLowerCase(ReplaceSpaces(name))

\* The display name of the device: "Lovi-Presence" in presence_gen_one,
\* "Lovi-Test" in test_device; the portal firmware on its own is given a
\* device named "Lovi Device 2".
DeviceName(f) ==
    CASE f = "legacy" -> <<"L", "o", "v", "i", "-", "P", "r", "e", "s", "e", "n", "c", "e">>
      [] f = "test" -> <<"L", "o", "v", "i", "-", "T", "e", "s", "t">>
      [] OTHER -> <<"L", "o", "v", "i", " ", "D", "e", "v", "i", "c", "e", " ", "2">>

HasAP(m) == m \in {"AP", "AP_STA"}
HasSTA(m) == m \in {"STA", "AP_STA"}
\* enableSTA(true): the station bit is added, the access-point bit kept
WithSTA(m) == IF HasAP(m) THEN "AP_STA" ELSE "STA"

----------------------------------------------------------------------------
\* External collaborators of the portal build.  Their sources are not part of
\* lib/lovi-captive-portal/src; they follow the design document.

\* DNS Redirector: started / stopped, both idempotent.
DnsBegin(s, ip) == Emit([s EXCEPT !.dnsRunning = TRUE, !.dnsAddr = ip], "dns.begin")
DnsStop(s) == Emit([s EXCEPT !.dnsRunning = FALSE, !.dnsAddr = NoAddr], "dns.stop")
\* The answer to a query for name: the address the redirector was started
\* with, whatever the name.
DnsAnswer(running, ip, name) == IF running THEN ip ELSE "none"
DnsProcess(s) == Emit(s, "dns.processRequests")

\* Status Indicator: setPattern(PatternId).
LedSetPattern(s, p) == Emit([s EXCEPT !.ledPattern = p], "led.setPattern")

\* Credential Store: loadCredentials() and clear().
ConfigLoad(s) == Emit([s EXCEPT !.cfgSsid = s.eepromSsid], "config.load")
ConfigReset(s) == Emit([s EXCEPT !.cfgSsid = "", !.eepromSsid = ""], "config.reset")

\* Device Adapter lifecycle hooks, device->hook().  The call through a null
\* device is the effect "null.device".
DevNotify(s, hook) ==
    IF ~s.device THEN Emit(s, "null.device")
    ELSE Emit([s EXCEPT !.devMode = CASE hook = "onEnterConfigMode" -> "config"
                                      [] hook = "onExitConfigMode" -> "normal"
                                      [] OTHER -> @],
              hook)

\* Connection Manager connect(): false at once with no stored SSID; IDLE (or
\* FAILED) -> CONNECTING with credentials; a no-op while CONNECTING; rejected
\* while CONNECTED.
WmConnectStarts(s) == s.cfgSsid # "" /\ s.wmState \in {"IDLE", "FAILED"}
WmConnectRet(s) == s.cfgSsid # "" /\ s.wmState # "CONNECTED"
\* Faulty variant: a connect() during an attempt starts the attempt over.
WmConnectRestarts(s) ==
    IF s.cfgSsid # "" /\ s.wmState \in {"IDLE", "FAILED", "CONNECTING"}
    THEN Emit([s EXCEPT !.wmState = "CONNECTING", !.wmTicks = 0,
                        !.staBegun = TRUE, !.wifiMode = WithSTA(@),
                        !.attempts = IF s.wmState = "CONNECTING" THEN @ ELSE @ + 1],
              "WiFi.begin")
    ELSE Emit(s, "connect.rejected")

WmConnect(s) ==
    IF WmConnectStarts(s)
    THEN Emit([s EXCEPT !.wmState = "CONNECTING", !.wmTicks = 0,
                        !.staBegun = TRUE, !.wifiMode = WithSTA(@),
                        !.attempts = @ + 1],
              "WiFi.begin")
    ELSE Emit(s, "connect.rejected")

----------------------------------------------------------------------------
\* lib/lovi-captive-portal/src/CaptivePortal.cpp

\* Faulty variant: the redirector is started on the station's address.
startAccessPointDnsOnSta(s) ==
    LET s1 == Emit([s EXCEPT !.wifiMode = "AP_STA"], "WiFi.mode(AP_STA)")
        s2 == Emit([s1 EXCEPT !.apActive = TRUE, !.apAddr = ApAddress], "WiFi.softAP")
    IN DnsBegin(s2, IF s2.linkUp THEN StaAddress ELSE NoAddr)

\* apIP is 192.168.4.1 from the constructor on and is written nowhere.
startAccessPoint(s) ==
    LET s1 == Emit([s EXCEPT !.wifiMode = "AP_STA"], "WiFi.mode(AP_STA)")
        s2 == Emit([s1 EXCEPT !.apActive = TRUE, !.apAddr = ApAddress], "WiFi.softAP")
    IN DnsBegin(s2, ApAddress)

enterConfigMode(s) ==
    LET s1 == Emit([s EXCEPT !.configMode = TRUE, !.cfgExitDone = FALSE],
                   "enterConfigMode")
        s2 == startAccessPoint(s1)
    IN IF s2.device THEN DevNotify(s2, "onEnterConfigMode") ELSE s2

\* Faulty variant: the timeout callback forgets to bring the access point up.
onEnterAPModeNoAP(s) ==
    LET s1 == LedSetPattern(Emit(s, "cb.onEnterAPMode"), "AP_MODE")
        s2 == [s1 EXCEPT !.configMode = TRUE, !.cfgExitDone = FALSE]
    IN IF s2.device THEN DevNotify(s2, "onEnterConfigMode") ELSE s2

onEnterAPMode(s) ==
    LET s1 == LedSetPattern(Emit(s, "cb.onEnterAPMode"), "AP_MODE")
        s2 == [s1 EXCEPT !.configMode = TRUE, !.cfgExitDone = FALSE]
        s3 == startAccessPoint(s2)
    IN IF s3.device THEN DevNotify(s3, "onEnterConfigMode") ELSE s3

\* Faulty variant: a lost link puts the portal back into CONFIG mode.
onWiFiDisconnectedEntersConfig(s) ==
    LET s1 == Emit(s, "cb.onWiFiDisconnected")
        s2 == IF s1.device THEN DevNotify(s1, "onWiFiDisconnected") ELSE s1
    IN onEnterAPMode(s2)

\* Faulty variant: the adapter is notified without the null test.
onWiFiDisconnectedNoGuard(s) ==
    DevNotify(Emit(s, "cb.onWiFiDisconnected"), "onWiFiDisconnected")

onWiFiDisconnected(s) ==
    LET s1 == Emit(s, "cb.onWiFiDisconnected")
    IN IF s1.device THEN DevNotify(s1, "onWiFiDisconnected") ELSE s1

\* Faulty variant: the access point and the redirector are shut down, the flag stays set.
exitConfigModeKeepsFlag(s) ==
    LET s1 == DnsStop([s EXCEPT !.cfgExitDone = TRUE])
        s2 == Emit([s1 EXCEPT !.apActive = FALSE, !.apAddr = NoAddr,
                              !.wifiMode = IF HasSTA(@) THEN "STA" ELSE "OFF"],
                   "WiFi.softAPdisconnect")
    IN Emit([s2 EXCEPT !.wifiMode = "STA"], "WiFi.mode(STA)")

\* Faulty variant: the flag is cleared and the access point dropped, the redirector is
\* left running.
exitConfigModeKeepsDns(s) ==
    LET s1 == [s EXCEPT !.configMode = FALSE, !.cfgExitDone = TRUE]
        s2 == Emit([s1 EXCEPT !.apActive = FALSE, !.apAddr = NoAddr,
                              !.wifiMode = IF HasSTA(@) THEN "STA" ELSE "OFF"],
                   "WiFi.softAPdisconnect")
    IN Emit([s2 EXCEPT !.wifiMode = "STA"], "WiFi.mode(STA)")

\* The block guarded by  if (configMode)  in onWiFiConnected.
exitConfigMode(s) ==
    LET s1 == DnsStop([s EXCEPT !.configMode = FALSE, !.cfgExitDone = TRUE])
        s2 == Emit([s1 EXCEPT !.apActive = FALSE, !.apAddr = NoAddr,
                              !.wifiMode = IF HasSTA(@) THEN "STA" ELSE "OFF"],
                   "WiFi.softAPdisconnect")
    IN Emit([s2 EXCEPT !.wifiMode = "STA"], "WiFi.mode(STA)")

\* mdnsOk: the result of MDNS.begin()
onWiFiConnected(s, mdnsOk) ==
    LET s1 == LedSetPattern(Emit(s, "cb.onWiFiConnected"), "CONNECTED")
        s2 == IF s1.configMode THEN exitConfigMode(s1) ELSE s1
        s3 == IF mdnsOk
              THEN Emit([s2 EXCEPT !.mdnsStarted = TRUE,
                                   !.mdnsHost = Hostname(DeviceName(s2.fw))],
                        "MDNS.addService")
              ELSE s2
    IN IF s2.device
       THEN DevNotify(DevNotify(s3, "onWiFiConnected"), "onExitConfigMode")
       ELSE s2

\* Faulty variant: no callback is registered for the connected event.
DispatchNoConnected(s, event, mdnsOk) ==
    CASE event = "connected" -> s
      [] event = "disconnected" -> onWiFiDisconnected(s)
      [] event = "enterAP" -> onEnterAPMode(s)

\* Faulty variant: onWiFiConnected is registered for the disconnected event as well.
DispatchSwapped(s, event, mdnsOk) ==
    CASE event = "connected" -> onWiFiConnected(s, mdnsOk)
      [] event = "disconnected" -> onWiFiConnected(s, mdnsOk)
      [] event = "enterAP" -> onEnterAPMode(s)

\* The callbacks begin() registers with the WiFiManager (lines 108-110).
Dispatch(s, event, mdnsOk) ==
    CASE event = "connected" -> onWiFiConnected(s, mdnsOk)
      [] event = "disconnected" -> onWiFiDisconnected(s)
      [] event = "enterAP" -> onEnterAPMode(s)

\* Connection Manager update(): one poll of the radio.  lossTo is the state a
\* lost link leads to (IDLE or FAILED).
WmUpdate(s, lossTo, mdnsOk) ==
    LET s0 == Emit(s, "wifiManager.update")
    IN CASE s0.wmState = "CONNECTING" /\ s0.linkUp ->
              Dispatch(Emit([s0 EXCEPT !.wmState = "CONNECTED"], "attempt.linkUp"),
                       "connected", mdnsOk)
         [] s0.wmState = "CONNECTING" /\ ~s0.linkUp /\ s0.wmTicks + 1 >= WIFI_TIMEOUT ->
              Dispatch(Emit([s0 EXCEPT !.wmState = "FAILED", !.wmTicks = 0], "attempt.timeout"),
                       "enterAP", mdnsOk)
         [] s0.wmState = "CONNECTING" /\ ~s0.linkUp /\ s0.wmTicks + 1 < WIFI_TIMEOUT ->
              [s0 EXCEPT !.wmTicks = @ + 1]
         [] s0.wmState = "CONNECTED" /\ ~s0.linkUp ->
              Dispatch(Emit([s0 EXCEPT !.wmState = lossTo], "link.lost"),
                       "disconnected", mdnsOk)
         [] OTHER -> s0

\* Faulty variant: begin() tests connectInitiated the wrong way round.
beginConfigIfInitiated(s) ==
    LET s0 == Emit(s, "begin")
        s1 == LedSetPattern(s0, "BOOT")
        s2 == ConfigLoad(s1)
        s3 == IF s2.device
              THEN Emit([s2 EXCEPT !.wifiHost = Hostname(DeviceName(s2.fw))],
                        "wifiManager.setHostname")
              ELSE s2
        s4 == LedSetPattern(s3, "WIFI_CONNECT")
        connectInitiated == WmConnectRet(s4)
        s5 == WmConnect(s4)
        s6 == IF connectInitiated THEN enterConfigMode(s5) ELSE s5
        s7 == Emit([s6 EXCEPT !.webStarted = TRUE], "webServer.begin")
        s8 == IF s7.device /\ ~s7.deviceInitialized
              THEN DevNotify(Emit([s7 EXCEPT !.deviceInitialized = TRUE], "device.begin"),
                             "onExitConfigMode")
              ELSE s7
    IN [s8 EXCEPT !.pc = "loop"]

\* Faulty variant: begin() enters CONFIG mode whatever connect() returned.
beginAlwaysConfig(s) ==
    LET s0 == Emit(s, "begin")
        s1 == LedSetPattern(s0, "BOOT")
        s2 == ConfigLoad(s1)
        s3 == IF s2.device
              THEN Emit([s2 EXCEPT !.wifiHost = Hostname(DeviceName(s2.fw))],
                        "wifiManager.setHostname")
              ELSE s2
        s4 == LedSetPattern(s3, "WIFI_CONNECT")
        s5 == WmConnect(s4)
        s6 == enterConfigMode(s5)
        s7 == Emit([s6 EXCEPT !.webStarted = TRUE], "webServer.begin")
        s8 == IF s7.device /\ ~s7.deviceInitialized
              THEN DevNotify(Emit([s7 EXCEPT !.deviceInitialized = TRUE], "device.begin"),
                             "onExitConfigMode")
              ELSE s7
    IN [s8 EXCEPT !.pc = "loop"]

begin(s) ==
    LET s0 == Emit(s, "begin")
        s1 == LedSetPattern(s0, "BOOT")
        s2 == ConfigLoad(s1)
        s3 == IF s2.device
              THEN Emit([s2 EXCEPT !.wifiHost = Hostname(DeviceName(s2.fw))],
                        "wifiManager.setHostname")
              ELSE s2
        s4 == LedSetPattern(s3, "WIFI_CONNECT")
        connectInitiated == WmConnectRet(s4)
        s5 == WmConnect(s4)
        s6 == IF ~connectInitiated THEN enterConfigMode(s5) ELSE s5
        s7 == Emit([s6 EXCEPT !.webStarted = TRUE], "webServer.begin")
        s8 == IF s7.device /\ ~s7.deviceInitialized
              THEN DevNotify(Emit([s7 EXCEPT !.deviceInitialized = TRUE], "device.begin"),
                             "onExitConfigMode")
              ELSE s7
    IN [s8 EXCEPT !.pc = "loop"]

----------------------------------------------------------------------------
\* HTTP surface of the portal build.
\* A request is [method, api, name, suffix, body]: its URI is "/" + name + suffix,
\* or "/api/" + name + suffix when api is set; body is the kind of its "plain"
\* argument ("none" is the empty string, which is not valid JSON).

Send(s, code, ctype, body) ==
    Emit([s EXCEPT !.resp = [code |-> code, ctype |-> ctype, body |-> body]],
         "webServer.send")

\* ESP.restart(): the process ends; the next thing to run is the constructors
\* and then setup().  The EEPROM content survives.
Reboot(s) ==
    [Constructed(s.fw, s.device, s.eepromSsid) EXCEPT
        !.trace = Append(s.trace, "ESP.restart"), !.resp = s.resp, !.served = s.served]

ProbeNames == {"generate_204", "generate204", "hotspot-detect.html", "ncsi.txt",
               "connecttest.txt", "redirect"}
GetNames == {"connected", "presence", "status", "data", "device", "scan",
             "network", "settings"}
PostNames == {"settings", "restart", "reset", "led"}

\* The route table built by setupWebServerRoutes().
Route(req) ==
    CASE req.suffix # "" -> "handleNotFound"
      [] ~req.api /\ req.method = "GET" /\ req.name \in ProbeNames -> "handleProbe"
      [] ~req.api /\ req.method = "GET" /\ req.name = "favicon.ico" -> "handleFavicon"
      [] ~req.api /\ req.method = "GET" /\ req.name = "" -> "handleRoot"
      [] req.method = "GET" /\ req.name \in GetNames -> req.name
      [] req.method = "POST" /\ req.name \in PostNames -> req.name
      [] OTHER -> "handleNotFound"

\* Faulty variant: reports the connection manager's state, not the link's.
handleConnectedByState(s) ==
    Send(s, 200, "application/json",
         [kind |-> "connected", connected |-> s.wmState = "CONNECTED",
          ip |-> IF s.wmState = "CONNECTED" THEN "sta-ip" ELSE "0.0.0.0",
          ssid |-> IF s.wmState = "CONNECTED" THEN s.cfgSsid ELSE ""])

handleConnected(s) ==
    Send(s, 200, "application/json",
         [kind |-> "connected", connected |-> s.linkUp,
          ip |-> IF s.linkUp THEN "sta-ip" ELSE "0.0.0.0",
          ssid |-> IF s.linkUp THEN s.cfgSsid ELSE ""])

\* presence, status, data, device: the adapter's answer, or the default payload
handleQuery(s, what) ==
    Send(s, 200, "application/json",
         [kind |-> what, from |-> IF s.device THEN "device" ELSE "default"])

handleScan(s) == Send(s, 200, "application/json", [kind |-> "scan"])

handleNetwork(s) ==
    Send(s, 200, "application/json",
         [kind |-> "network", mode |-> s.wifiMode, connected |-> s.linkUp])

\* Faulty variant: the body goes to the adapter without being parsed first.
handleSettingsNoParse(s, req, devOk) ==
    IF req.method = "GET"
    THEN Send(s, 200, "application/json",
              [kind |-> "settings", from |-> IF s.device THEN "device" ELSE "error"])
    ELSE LET s1 == DevNotify(s, "device.updateSettings")
         IN Send(s1, 200, "application/json",
                 [kind |-> "settings-post", success |-> s.device /\ devOk])

\* devOk: the result of device->updateSettings(doc)
handleSettings(s, req, devOk) ==
    IF req.method = "GET"
    THEN Send(s, 200, "application/json",
              [kind |-> "settings", from |-> IF s.device THEN "device" ELSE "error"])
    ELSE IF req.body \in {"none", "invalid"}
         THEN Send(s, 400, "application/json", [kind |-> "error", error |-> "Invalid JSON"])
         ELSE IF s.device /\ devOk
              THEN Send(Emit(s, "device.updateSettings"), 200, "application/json",
                        [kind |-> "settings-post", success |-> TRUE])
              ELSE Send(IF s.device THEN Emit(s, "device.updateSettings") ELSE s,
                        200, "application/json",
                        [kind |-> "settings-post", success |-> FALSE])

\* Faulty variant: a POST with "state" flips the indicator instead of setting it.
handleLEDToggles(s, req) ==
    IF req.method # "POST"
    THEN Send(s, 405, "application/json", [kind |-> "error", error |-> "Use POST method"])
    ELSE IF req.body \in {"state_true", "state_false"}
         THEN LET on == s.ledPattern # "ON"
                  s1 == LedSetPattern(Emit(s, "led.setState"), IF on THEN "ON" ELSE "OFF")
              IN Send(s1, 200, "application/json",
                      [kind |-> "led", success |-> TRUE, led |-> on])
         ELSE Send(s, 400, "application/json", [kind |-> "error", error |-> "Invalid JSON"])

handleLED(s, req) ==
    IF req.method # "POST"
    THEN Send(s, 405, "application/json", [kind |-> "error", error |-> "Use POST method"])
    ELSE IF req.body \in {"none", "invalid"}
         THEN Send(s, 400, "application/json", [kind |-> "error", error |-> "Invalid JSON"])
         ELSE IF req.body \in {"state_true", "state_false"}
              THEN LET on == req.body = "state_true"
                       s1 == Emit(s, "led.setState")
                       s2 == LedSetPattern(s1, IF on THEN "ON" ELSE "OFF")
                   IN Send(s2, 200, "application/json",
                           [kind |-> "led", success |-> TRUE, led |-> on])
              ELSE Send(s, 400, "application/json",
                        [kind |-> "error", error |-> "Missing 'state' parameter"])

handleRestart(s) ==
    LET s1 == Send(Emit(s, "handleRestart"), 200, "application/json",
                   [kind |-> "ack", success |-> TRUE])
    IN Reboot(Emit(s1, "delay"))

\* Faulty variant: the credentials are cleared and the device restarted before the
\* response is written.
handleResetRestartFirst(s) ==
    LET s1 == ConfigReset(Emit(Emit(s, "handleReset"), "delay"))
    IN Send(Reboot(s1), 200, "application/json", [kind |-> "ack", success |-> TRUE])

\* Faulty variant: the device restarts with its credentials kept.
handleResetKeepsConfig(s) ==
    LET s1 == Send(Emit(s, "handleReset"), 200, "application/json",
                   [kind |-> "ack", success |-> TRUE])
    IN Reboot(Emit(s1, "delay"))

handleReset(s) ==
    LET s1 == Send(Emit(s, "handleReset"), 200, "application/json",
                   [kind |-> "ack", success |-> TRUE])
        s2 == ConfigReset(Emit(s1, "delay"))
    IN Reboot(s2)

\* getCaptivePortalUrl() and the five probe handlers
handleProbe(s) ==
    Send(s, 302, "text/plain",
         [kind |-> "redirect",
          location |-> IF HasAP(s.wifiMode) THEN "http://ap-ip/" ELSE "http://sta-ip/"])

handleFavicon(s) == Send(s, 204, "image/x-icon", [kind |-> "empty"])

handleRoot(s) == Send(s, 200, "text/html", [kind |-> "page"])

handleNotFound(s, req) ==
    IF req.api \/ req.name \in {"connected", "presence", "status", "data",
                                "settings", "restart", "reset"}
    THEN Send(s, 404, "application/json", [kind |-> "error", error |-> "Not found"])
    ELSE Send(s, 200, "text/html", [kind |-> "page"])

\* webServer.handleClient() with request req pending (method "NONE": nothing pending)
handleClient(s, req, devOk) ==
    IF req.method = "NONE" THEN Emit(s, "webServer.handleClient")
    ELSE LET s0 == Emit([s EXCEPT !.served = req], "webServer.handleClient")
             h == Route(req)
         IN CASE h = "handleProbe" -> handleProbe(s0)
              [] h = "handleFavicon" -> handleFavicon(s0)
              [] h = "handleRoot" -> handleRoot(s0)
              [] h = "connected" -> handleConnected(s0)
              [] h \in {"presence", "status", "data", "device"} -> handleQuery(s0, h)
              [] h = "scan" -> handleScan(s0)
              [] h = "network" -> handleNetwork(s0)
              [] h = "settings" -> handleSettings(s0, req, devOk)
              [] h = "led" -> handleLED(s0, req)
              [] h = "restart" -> handleRestart(s0)
              [] h = "reset" -> handleReset(s0)
              [] OTHER -> handleNotFound(s0, req)

\* CaptivePortal::update(): one tick.  in = [req, devOk, lossTo, mdnsOk]
update(s, in) ==
    LET again == in.req.method # "NONE" /\ in.req = s.served
        s0 == [s EXCEPT !.trace = IF again THEN <<"update", "request.again">>
                                  ELSE <<"update">>,
                        !.resp = NoResp, !.served = NoReq]
        s1 == Emit(s0, "led.update")
        s2 == IF s1.configMode \/ HasAP(s1.wifiMode) THEN DnsProcess(s1) ELSE s1
        s3 == IF s2.webStarted THEN handleClient(s2, in.req, in.devOk)
              ELSE Emit(s2, "webServer.handleClient")
        s4 == WmUpdate(s3, in.lossTo, in.mdnsOk)
        s5 == IF s4.configMode THEN s4
              ELSE LET d == IF s4.device THEN Emit(s4, "device.update") ELSE s4
                   IN IF d.linkUp THEN Emit(d, "MDNS.update") ELSE d
    IN IF s3.pc = "constructed" THEN s3 ELSE Emit(s5, "wdtFeed")

\* devices/test_device/main.cpp setup(): a ConfigManager of its own reads the
\* stored SSID; with none the portal is put into CONFIG mode directly and
\* begin() is not called.
testSetup(s) ==
    LET s0 == Emit(s, "setup")
    IN IF s0.eepromSsid = ""
       THEN [enterConfigMode(Emit(s0, "config.load")) EXCEPT !.pc = "loop"]
       ELSE begin(Emit(s0, "config.load"))

----------------------------------------------------------------------------
\* Legacy build: lib/captiveportal/CaptivePortal.cpp and
\* devices/presence_gen_one/main.cpp.  A legacy request is [name, args, ssid].

Alloc(s, what) == Emit([s EXCEPT !.allocs[what] = @ + 1], "new")

legacySetupWebServer(s) ==
    Emit([Alloc(s, "webServer") EXCEPT !.webStarted = TRUE], "webServer.begin")

legacySetupAP(s) ==
    LET s1 == Emit([s EXCEPT !.wifiMode = "AP"], "WiFi.mode(AP)")
    IN Emit([s1 EXCEPT !.apActive = TRUE, !.apAddr = ApAddress], "WiFi.softAP")

legacyBegin(s) ==
    IF s.started THEN s
    ELSE LET s1 == ConfigLoad(Alloc(s, "configManager"))
             s2 == Alloc(s1, "ledController")
         IN [legacySetupWebServer(s2) EXCEPT !.started = TRUE]

legacyEnterConfigMode(s) ==
    IF s.configMode THEN s
    ELSE LET s1 == Emit([s EXCEPT !.configMode = TRUE], "enterConfigMode")
             s2 == [Alloc(s1, "configManager") EXCEPT !.cfgSsid = ""]
             s3 == Alloc(s2, "ledController")
             s4 == legacySetupWebServer(legacySetupAP(s3))
         IN Emit([Alloc(s4, "dnsServer") EXCEPT !.dnsRunning = TRUE, !.dnsAddr = s4.apAddr],
                 "dns.begin")

\* setup(): portal.getConfigManager() is still null when loadConfig() is called
\* through it.  ub is what that call does: the write through the null pointer
\* traps ("crash"), or it goes through and the SSID read back is the EEPROM's
\* ("proceed").
setup(s, ub) ==
    LET s0 == [s EXCEPT !.trace = <<"setup">>, !.resp = NoResp, !.served = NoReq]
    IN IF ub = "crash" THEN [Emit(s0, "null.loadConfig") EXCEPT !.pc = "crashed"]
       ELSE IF s0.eepromSsid = ""
            THEN [legacyEnterConfigMode(s0) EXCEPT !.pc = "loop"]
            ELSE LET s1 == legacyBegin(s0)
                     s2 == Emit([s1 EXCEPT !.wifiMode = "STA"], "WiFi.mode(STA)")
                 IN Emit([s2 EXCEPT !.staBegun = TRUE, !.attempts = @ + 1,
                                    !.timeout = 0, !.pc = "connecting"],
                         "WiFi.begin")

\* connectToWiFi(): one iteration of the wait loop (delay(1000); timeout++)
connectWait(s) ==
    Emit([s EXCEPT !.trace = <<"connectToWiFi">>, !.resp = NoResp, !.timeout = @ + 1],
         "delay")

\* connectToWiFi(): the loop has ended, by link-up or by timeout
connectDone(s) ==
    LET s0 == [s EXCEPT !.trace = <<"connectToWiFi">>, !.resp = NoResp, !.pc = "loop"]
    IN IF s0.linkUp
       THEN Emit([Emit(s0, "attempt.linkUp") EXCEPT !.devStarted = TRUE, !.mdnsStarted = TRUE,
                                                    !.mdnsHost = DeviceName(s0.fw)],
                 "device.startAPIServer")
       ELSE Emit(Emit(s0, "attempt.timeout"), "WiFi connection failed!")

\* Faulty variant: /save stores whatever arguments it got, present or not.
legacyHandleSaveNoCheck(s, req) ==
    LET s1 == Emit([s EXCEPT !.cfgSsid = req.ssid, !.eepromSsid = req.ssid],
                   "config.save")
        s2 == Send(s1, 200, "text/html", [kind |-> "saved"])
    IN Reboot(Emit(s2, "delay"))

legacyHandleSave(s, req) ==
    IF req.args = "both"
    THEN LET s1 == Emit([s EXCEPT !.cfgSsid = req.ssid, !.eepromSsid = req.ssid],
                        "config.save")
             s2 == Send(s1, 200, "text/html", [kind |-> "saved"])
         IN Reboot(Emit(s2, "delay"))
    ELSE Send(s, 400, "text/html", [kind |-> "invalid"])

legacyHandleClient(s, req) ==
    LET s0 == Emit([s EXCEPT !.served = req], "webServer.handleClient")
    IN CASE req.name = "NONE" -> s0
         [] req.name = "" -> Send(s0, 200, "text/html", [kind |-> "page"])
         [] req.name = "save" -> legacyHandleSave(s0, req)
         [] OTHER -> Send(s0, 302, "", [kind |-> "redirect", location |-> "/"])

\* loop(): portal.update(); device.update();
loop(s, req) ==
    LET s0 == [s EXCEPT !.trace = <<"loop">>, !.resp = NoResp, !.served = NoReq]
        s1 == IF s0.configMode /\ s0.allocs.dnsServer > 0 THEN DnsProcess(s0) ELSE s0
        s2 == IF s1.allocs.webServer > 0 THEN legacyHandleClient(s1, req) ELSE s1
    IN IF s2.pc = "constructed" THEN s2
       ELSE IF s2.devStarted THEN Emit(s2, "device.update") ELSE s2

----------------------------------------------------------------------------
\* lib/captiveportal/ConfigManager.cpp, byte by byte.  The object is its two
\* character arrays, _ssid at offset 0 and _password behind it; a C string is
\* a sequence of non-zero bytes.

ObjSize == SsidSize + PasswordSize
\* What memory that was never written may hold.
Garbage == {0, 255}
NoArgs == [ssid |-> <<>>, pass |-> <<>>]

\* ConfigManager(): only the first byte of each array is set.
ConfigManagerCtor(g) ==
    [i \in 0..(ObjSize - 1) |-> IF i = 0 \/ i = SsidSize THEN 0 ELSE g]

\* strncpy(m + off, src, n): n bytes are written, zeros once src has ended.
Strncpy(m, off, src, n) ==
    [i \in DOMAIN m |->
        IF i >= off /\ i < off + n
        THEN IF i - off < Len(src) THEN src[i - off + 1] ELSE 0
        ELSE m[i]]

\* Faulty variant: the SSID is copied without a limit, terminator included.
setSSIDUnbounded(m, x) ==
    [i \in DOMAIN m |->
        IF i < Len(x) THEN x[i + 1] ELSE IF i = Len(x) THEN 0 ELSE m[i]]

setSSID(m, x) ==
    [Strncpy(m, 0, x, SsidSize - 1) EXCEPT ![SsidSize - 1] = 0]

setPassword(m, y) ==
    [Strncpy(m, SsidSize, y, PasswordSize - 1) EXCEPT ![ObjSize - 1] = 0]

\* The C string that starts at offset off: the bytes up to the first zero
\* (reading on to the end of the object if the array holds none).
RECURSIVE StrLen(_, _, _)
StrLen(m, off, k) ==
    IF off + k = ObjSize \/ m[off + k] = 0 THEN k ELSE StrLen(m, off, k + 1)
CStr(m, off) == [i \in 1..StrLen(m, off, 0) |-> m[off + i - 1]]

getSSID(m) == CStr(m, 0)
getPassword(m) == CStr(m, SsidSize)
isConfigured(m) == Len(getSSID(m)) > 0

\* _saveToEEPROM(): byte i of _ssid to cell i, byte i of _password to cell
\* sizeof(_ssid) + i.
saveToEEPROM(m, e) ==
    [i \in DOMAIN e |-> IF i < ObjSize THEN m[i] ELSE e[i]]

\* _loadFromEEPROM()
loadFromEEPROM(m, e) == [i \in DOMAIN m |-> e[i]]

\* clearConfig(): both strings emptied, then saved.
clearConfig(m) == [m EXCEPT ![0] = 0, ![SsidSize] = 0]

\* Input strings: empty, one byte, the longest that fits, and up to MaxOver
\* bytes more than that; byte i depends on i.
Bytes(n) == [i \in 1..n |-> 1 + (i % 5)]
InputsFor(size) ==
    {Bytes(n) : n \in {0, 1, size - 1} \cup (size..(size - 1 + MaxOver))}
Take(x, n) == SubSeq(x, 1, IF Len(x) < n THEN Len(x) ELSE n)

\* The calls made since the last setSSID, as long as they follow
\* setSSID, setPassword, saveConfig, [a new ConfigManager,] loadConfig;
\* otherwise the last call alone.
Follows(t, op) ==
    \/ t = <<"setSSID">> /\ op = "setPassword"
    \/ t = <<"setSSID", "setPassword">> /\ op = "saveConfig"
    \/ t = <<"setSSID", "setPassword", "saveConfig">> /\ op \in {"construct", "loadConfig"}
    \/ t = <<"setSSID", "setPassword", "saveConfig", "construct">> /\ op = "loadConfig"
Called(t, op) == IF Follows(t, op) THEN Append(t, op) ELSE <<op>>
Last(t) == IF Len(t) = 0 THEN "" ELSE t[Len(t)]

----------------------------------------------------------------------------
\* Inputs.

Req(m, a, n) == [method |-> m, api |-> a, name |-> n, suffix |-> "", body |-> "none"]

ReqB(m, a, n, b) == [method |-> m, api |-> a, name |-> n, suffix |-> "", body |-> b]
ReqS(m, a, n, x) == [method |-> m, api |-> a, name |-> n, suffix |-> x, body |-> "none"]

\* Kinds of request body: empty, not JSON, JSON without "state", JSON with
\* "state": true / false.
Bodies == {"none", "invalid", "no_state", "state_true", "state_false"}

\* Requests a client sends to the portal build while connection attempts come
\* and go.
Requests ==
    {NoReq,
     Req("POST", FALSE, "restart"), Req("POST", TRUE, "restart"),
     Req("POST", FALSE, "reset"), Req("POST", TRUE, "reset"),
     Req("GET", FALSE, "connected"), Req("GET", FALSE, "nosuch")}

\* Requests a client sends to the portal build: the HTTP surface.
HttpRequests ==
    {NoReq}
    \cup {Req("POST", a, n) : a \in BOOLEAN, n \in {"restart", "reset"}}
    \cup {Req("GET", FALSE, n) : n \in ProbeNames}
    \cup {Req("GET", a, n) : a \in BOOLEAN, n \in GetNames}
    \cup {ReqB("POST", a, "settings", b) : a \in BOOLEAN, b \in {"none", "invalid", "no_state"}}
    \cup {ReqB("POST", a, "led", b) : a \in BOOLEAN, b \in Bodies}
    \cup {Req(m, a, n) : m \in {"GET", "POST"}, a \in BOOLEAN,
                           n \in {"led", "device", "connected", "nosuch"}}
    \cup {Req("GET", FALSE, "favicon.ico"), Req("GET", FALSE, ""),
          Req("GET", TRUE, "generate_204"), Req("POST", FALSE, "generate_204"),
          ReqS("GET", FALSE, "status", "x")}

LegacyNoReq == [name |-> "NONE", args |-> "none", ssid |-> ""]
LegacyRequests ==
    {LegacyNoReq} \cup
    {r \in [name : {"", "save", "nosuch"}, args : {"both", "missing"}, ssid : SSIDs] :
        /\ r.name # "save" => r.args = "missing"
        /\ r.args = "missing" => r.ssid = ""}

\* The inputs of one tick, each drawn only where the tick reads it.
DevOkFor(req) ==
    IF device /\ req.method = "POST" /\ req.name = "settings"
       /\ req.body \notin {"none", "invalid"}
    THEN BOOLEAN ELSE {FALSE}
RequestsNow == IF webStarted THEN Requests ELSE {NoReq}

\* Requests that arrive while an attempt is counting its polls.
PollingRequests ==
    {NoReq, Req("GET", FALSE, "connected")}
    \cup {Req("POST", a, n) : a \in BOOLEAN, n \in {"restart", "reset"}}

\* HTTP surface: requests that can be served by the coming tick.  None before
\* the server is started; no handler reads the poll count, so during the count
\* of an attempt the clients are taken to send PollingRequests only; a request
\* is followed by no request, by the same request again or by one of
\* PollingRequests.
HttpRequestsNow ==
    IF ~webStarted THEN {NoReq}
    ELSE IF wmState = "CONNECTING" /\ wmTicks > 0 THEN PollingRequests
    ELSE IF served = NoReq THEN HttpRequests
    ELSE PollingRequests \cup {served}
LossToNow == IF wmState = "CONNECTED" /\ ~linkUp THEN {"IDLE", "FAILED"} ELSE {"IDLE"}
MdnsOkNow == IF wmState = "CONNECTING" /\ linkUp /\ device THEN BOOLEAN ELSE {TRUE}

----------------------------------------------------------------------------
\* Actions.

----------------------------------------------------------------------------
\* lib/lovi-core: Device, APIServer and MDNSAdvertiser as objects.  core is
\* the Device (its two pointers and two flags), an APIServer used on its own,
\* and the number of live objects of each class.

NullPtr == [null |-> TRUE]
NoLive == [MDNSAdvertiser |-> 0, APIServer |-> 0, ESP8266WebServer |-> 0]

\* Device(): both pointers null, both flags false.  APIServer(): _server null.
CoreInit ==
    [mdns |-> NullPtr, apiServer |-> NullPtr,
     mdnsStarted |-> FALSE, apiServerStarted |-> FALSE,
     api |-> [server |-> FALSE],
     live |-> [NoLive EXCEPT !.APIServer = 1],
     last |-> "constructed", prev |-> "constructed"]

New(c, class) == [c EXCEPT !.live[class] = @ + 1]
Delete(c, class) == [c EXCEPT !.live[class] = @ - 1]

\* The APIServer a call is made on: the Device's own ("device") or the one
\* used directly ("api").
ServerOf(c, who) == IF who = "api" THEN c.api ELSE c.apiServer
WithServer(c, who, a) ==
    IF who = "api" THEN [c EXCEPT !.api = a] ELSE [c EXCEPT !.apiServer = a]

isRunning(a) == a.server

APIServerBegin(c, who) ==
    IF ServerOf(c, who).server THEN c
    ELSE WithServer(New(c, "ESP8266WebServer"), who, [server |-> TRUE])

APIServerStop(c, who) ==
    IF ServerOf(c, who).server
    THEN WithServer(Delete(c, "ESP8266WebServer"), who, [server |-> FALSE])
    ELSE c

\* ok: what MDNS.begin() returns
MDNSAdvertiserBegin(c, ok) ==
    IF c.mdns.started THEN c
    ELSE IF ok THEN [c EXCEPT !.mdns = [started |-> TRUE]] ELSE c

MDNSAdvertiserStop(c) == [c EXCEPT !.mdns = [started |-> FALSE]]

\* Faulty variant: a start allocates whether or not the service is started.
startMDNSNoGuard(c, ok) ==
    LET c1 == [New(c, "MDNSAdvertiser") EXCEPT !.mdns = [started |-> FALSE]]
    IN [MDNSAdvertiserBegin(c1, ok) EXCEPT !.mdnsStarted = TRUE]

startMDNS(c, ok) ==
    IF ~c.mdnsStarted
    THEN LET c1 == [New(c, "MDNSAdvertiser") EXCEPT !.mdns = [started |-> FALSE]]
         IN [MDNSAdvertiserBegin(c1, ok) EXCEPT !.mdnsStarted = TRUE]
    ELSE c

stopMDNS(c) ==
    LET c1 == IF c.mdns # NullPtr
              THEN [Delete(MDNSAdvertiserStop(c), "MDNSAdvertiser") EXCEPT !.mdns = NullPtr]
              ELSE c
    IN [c1 EXCEPT !.mdnsStarted = FALSE]

startAPIServer(c) ==
    IF ~c.apiServerStarted
    THEN LET c1 == [New(c, "APIServer") EXCEPT !.apiServer = [server |-> FALSE]]
         IN [APIServerBegin(c1, "device") EXCEPT !.apiServerStarted = TRUE]
    ELSE c

\* delete _apiServer runs ~APIServer(), which calls stop() once more.
stopAPIServer(c) ==
    LET c1 == IF c.apiServer # NullPtr
              THEN LET c2 == APIServerStop(c, "device")
                       c3 == APIServerStop(c2, "device")
                   IN [Delete(c3, "APIServer") EXCEPT !.apiServer = NullPtr]
              ELSE c
    IN [c1 EXCEPT !.apiServerStarted = FALSE]

----------------------------------------------------------------------------
\* Initial states and actions.

InitFrom(s) ==
    /\ fw = s.fw /\ pc = s.pc /\ device = s.device
    /\ eepromSsid = s.eepromSsid /\ cfgSsid = s.cfgSsid
    /\ wifiMode = s.wifiMode /\ apActive = s.apActive
    /\ staBegun = s.staBegun /\ linkUp = s.linkUp
    /\ configMode = s.configMode /\ deviceInitialized = s.deviceInitialized
    /\ ledPattern = s.ledPattern
    /\ webStarted = s.webStarted /\ dnsRunning = s.dnsRunning
    /\ dnsAddr = s.dnsAddr /\ apAddr = s.apAddr
    /\ mdnsStarted = s.mdnsStarted /\ mdnsHost = s.mdnsHost /\ wifiHost = s.wifiHost
    /\ wmState = s.wmState /\ wmTicks = s.wmTicks
    /\ devMode = s.devMode /\ attempts = s.attempts /\ cfgExitDone = s.cfgExitDone
    /\ resp = s.resp /\ served = s.served /\ trace = s.trace /\ started = s.started
    /\ allocs = s.allocs /\ timeout = s.timeout /\ devStarted = s.devStarted

\* Power-on: any build, with or without an adapter (the two device firmwares
\* always have their global device), any EEPROM content.
Init ==
    /\ \E f \in {"portal", "test", "legacy"}, d \in BOOLEAN, ssid \in SSIDs :
          /\ f # "portal" => d
          /\ InitFrom(Constructed(f, d, ssid))
    /\ mem = ConfigManagerCtor(0)
    /\ eeprom = [i \in 0..(EepromSize - 1) |-> 0]
    /\ cfgArgs = NoArgs
    /\ core = CoreInit

\* Fresh(s): s at the start of a startup.  A startup serves no client: the
\* request served last and its response are those that ended the previous boot,
\* if any.
Fresh(s) == [s EXCEPT !.trace = <<>>]

\* portal: CaptivePortal::begin() is the startup
Begin ==
    /\ fw = "portal" /\ pc = "constructed"
    /\ Install(begin(Fresh(Cur)))

\* test: setup() of devices/test_device
TestSetup ==
    /\ fw = "test" /\ pc = "constructed"
    /\ Install(testSetup(Fresh(Cur)))

\* portal, test: loop() runs CaptivePortal::update()
Tick ==
    /\ fw \in {"portal", "test"} /\ pc = "loop"
    /\ \E req \in RequestsNow, lossTo \in LossToNow, mdnsOk \in MdnsOkNow :
         \E devOk \in DevOkFor(req) :
            Install(update(Cur, [req |-> req, devOk |-> devOk,
                                 lossTo |-> lossTo, mdnsOk |-> mdnsOk]))

\* portal, test: connect() called again after startup
Reconnect ==
    /\ fw \in {"portal", "test"} /\ pc = "loop"
    /\ WmConnectStarts(Cur) => attempts < MaxAttempts
    /\ Install(WmConnect([Cur EXCEPT !.trace = <<"connect">>, !.resp = NoResp, !.served = NoReq]))

\* legacy: setup()
Setup ==
    /\ fw = "legacy" /\ pc = "constructed"
    /\ \E ub \in {"crash", "proceed"} : Install(setup(Cur, ub))

\* legacy: connectToWiFi() waits another second
ConnectWait ==
    /\ fw = "legacy" /\ pc = "connecting"
    /\ ~linkUp /\ timeout < WIFI_TIMEOUT
    /\ Install(connectWait(Cur))

\* legacy: connectToWiFi() leaves its loop
ConnectDone ==
    /\ fw = "legacy" /\ pc = "connecting"
    /\ linkUp \/ timeout >= WIFI_TIMEOUT
    /\ Install(connectDone(Cur))

\* legacy: loop()
Loop ==
    /\ fw = "legacy" /\ pc = "loop"
    /\ \E req \in LegacyRequests : Install(loop(Cur, req))

\* The radio joins the network it was told to join.
LinkUp ==
    /\ pc \in {"loop", "connecting"} /\ staBegun /\ ~linkUp
    /\ Install([Cur EXCEPT !.linkUp = TRUE, !.trace = <<"radio.linkUp">>, !.resp = NoResp, !.served = NoReq])

\* The radio loses the network.
LinkDown ==
    /\ pc \in {"loop", "connecting"} /\ linkUp
    /\ Install([Cur EXCEPT !.linkUp = FALSE, !.trace = <<"radio.linkDown">>, !.resp = NoResp, !.served = NoReq])

Next ==
    \/ Begin
    \/ TestSetup
    \/ Tick
    \/ Reconnect
    \/ Setup
    \/ ConnectWait
    \/ ConnectDone
    \/ Loop
    \/ LinkUp
    \/ LinkDown

Spec == Init /\ [][Next]_vars

\* The credential store of the legacy build on its own: a ConfigManager and
\* the EEPROM, with any order of calls.
sysVars == <<fw, pc, device, eepromSsid, cfgSsid, wifiMode, apActive, staBegun, linkUp,
             configMode, deviceInitialized, ledPattern, webStarted,
             dnsRunning, dnsAddr, apAddr, mdnsStarted, mdnsHost, wifiHost, wmState,
             wmTicks, devMode,
             attempts, cfgExitDone, resp, served, started, allocs, timeout, devStarted>>

InitCfg ==
    /\ InitFrom(Constructed("legacy", TRUE, ""))
    /\ \E g \in Garbage : mem = ConfigManagerCtor(g)
    /\ \E e \in Garbage : eeprom = [i \in 0..(EepromSize - 1) |-> e]
    /\ cfgArgs = NoArgs
    /\ core = CoreInit

CfgConstruct ==
    /\ \E g \in Garbage : mem' = ConfigManagerCtor(g)
    /\ trace' = Called(trace, "construct")
    /\ UNCHANGED <<eeprom, cfgArgs, sysVars, core>>

CfgSetSSID ==
    /\ \E x \in InputsFor(SsidSize) :
          mem' = setSSID(mem, x) /\ cfgArgs' = [cfgArgs EXCEPT !.ssid = x]
    /\ trace' = Called(trace, "setSSID")
    /\ UNCHANGED <<eeprom, sysVars, core>>

CfgSetPassword ==
    /\ \E y \in InputsFor(PasswordSize) :
          mem' = setPassword(mem, y) /\ cfgArgs' = [cfgArgs EXCEPT !.pass = y]
    /\ trace' = Called(trace, "setPassword")
    /\ UNCHANGED <<eeprom, sysVars, core>>

CfgSave ==
    /\ eeprom' = saveToEEPROM(mem, eeprom)
    /\ trace' = Called(trace, "saveConfig")
    /\ UNCHANGED <<mem, cfgArgs, sysVars, core>>

CfgLoad ==
    /\ mem' = loadFromEEPROM(mem, eeprom)
    /\ trace' = Called(trace, "loadConfig")
    /\ UNCHANGED <<eeprom, cfgArgs, sysVars, core>>

CfgClear ==
    /\ mem' = clearConfig(mem)
    /\ eeprom' = saveToEEPROM(clearConfig(mem), eeprom)
    /\ trace' = Called(trace, "clearConfig")
    /\ UNCHANGED <<cfgArgs, sysVars, core>>

NextCfg ==
    \/ CfgConstruct
    \/ CfgSetSSID
    \/ CfgSetPassword
    \/ CfgSave
    \/ CfgLoad
    \/ CfgClear

SpecCfg == InitCfg /\ [][NextCfg]_vars

\* The HTTP surface: the same firmware, with clients that send HttpRequests
\* and nobody calling connect() again after startup.
TickHttp ==
    /\ fw \in {"portal", "test"} /\ pc = "loop"
    /\ \E r \in HttpRequestsNow, lossTo \in LossToNow, mdnsOk \in MdnsOkNow :
         \E devOk \in DevOkFor(r) :
            Install(update(Cur, [req |-> r, devOk |-> devOk,
                                 lossTo |-> lossTo, mdnsOk |-> mdnsOk]))

NextHttp ==
    \/ Begin
    \/ TestSetup
    \/ TickHttp
    \/ Setup
    \/ ConnectWait
    \/ ConnectDone
    \/ Loop
    \/ LinkUp
    \/ LinkDown

SpecHttp == Init /\ [][NextHttp]_vars

----------------------------------------------------------------------------
\* Properties.

Portal == fw \in {"portal", "test"}
StartupDone == pc = "loop" /\ (OpIs(trace, "begin") \/ OpIs(trace, "setup"))
BeginCall(t) == Has(t, "begin")
TimedOut(t) == Has(t, "attempt.timeout")
ConnectedEvent(t) == Has(t, "cb.onWiFiConnected")

\* C1: a startup that finds no stored SSID ends in CONFIG mode with the access
\* point up, and has started no station connection attempt.
C1_Original ==
    ((OpIs(trace, "begin") \/ OpIs(trace, "setup")) /\ eepromSsid = "") =>
        /\ configMode /\ apActive /\ HasAP(wifiMode)
        /\ ~staBegun /\ attempts = 0 /\ ~Has(trace, "WiFi.begin")
        /\ wmState # "CONNECTING"

\* The same statement for the builds on lib/lovi-captive-portal alone.
PortalStartsInConfig == Portal => C1_Original

\* C2 as written: a timeout enters CONFIG exactly once, and the redirector runs
\* after the transition and in no state of the attempt before it.
C2_Original ==
    [][(Portal /\ TimedOut(trace')) =>
          /\ Count(trace', "WiFi.softAP") = 1
          /\ device => Count(trace', "onEnterConfigMode") = 1
          /\ configMode' /\ dnsRunning'
          /\ ~dnsRunning]_vars

\* C2 amended: a timeout enters CONFIG exactly once (one access-point start, one
\* redirector start, one adapter notification) and the access point is started
\* by nothing but a timeout or a startup; the redirector runs after the
\* transition and keeps running until a connected event or a restart; before
\* the transition it is down if the attempt was started in NORMAL mode.
C2_TimeoutEntersConfigOnce ==
    [][Portal =>
          /\ TimedOut(trace') =>
                /\ Count(trace', "WiFi.softAP") = 1
                /\ Count(trace', "dns.begin") = 1
                /\ device => Count(trace', "onEnterConfigMode") = 1
                /\ configMode' /\ dnsRunning' /\ apActive'
                /\ ~configMode => ~dnsRunning
          /\ Has(trace', "WiFi.softAP") =>
                TimedOut(trace') \/ OpIs(trace', "begin") \/ OpIs(trace', "setup")
          /\ (dnsRunning /\ ~dnsRunning') =>
                ConnectedEvent(trace') \/ pc' = "constructed"]_vars

C2_Witness == Portal /\ OpIs(trace, "update") /\ TimedOut(trace) /\ dnsRunning /\ configMode

\* C3: a connected event handled in CONFIG mode stops the redirector and drops
\* the access point exactly once, and a connected event that follows with no
\* CONFIG entry in between fires no second onExitConfigMode.
C3_Original ==
    [][(Portal /\ ConnectedEvent(trace')) =>
          /\ configMode =>
                /\ Count(trace', "dns.stop") = 1
                /\ Count(trace', "WiFi.softAPdisconnect") = 1
                /\ ~dnsRunning' /\ ~HasAP(wifiMode')
          /\ ~configMode => ~Has(trace', "dns.stop") /\ ~Has(trace', "WiFi.softAPdisconnect")
          /\ cfgExitDone => ~Has(trace', "onExitConfigMode")]_vars

\* C4: once a connected event has been handled the mode flag is NORMAL, the
\* redirector is stopped and the radio is station-only.
C4_ConnectedClearsConfig ==
    (Portal /\ ConnectedEvent(trace)) =>
        ~configMode /\ ~dnsRunning /\ ~apActive /\ wifiMode = "STA"

C4_Witness == Portal /\ ConnectedEvent(trace) /\ Has(trace, "dns.stop") /\ ~configMode

\* C5: in NORMAL mode the redirector is down and no tick services it; it is
\* started exactly with the access point and stopped exactly by a connected
\* event handled in CONFIG mode; starting it while it runs leaves it running and
\* stopping happens only while it runs.
C5_NoDnsInNormal ==
    [][/\ ~configMode' => ~dnsRunning'
       /\ Portal =>
            /\ (OpIs(trace', "update") /\ ~configMode) =>
                  ~Has(trace', "dns.processRequests")
            /\ Has(trace', "dns.begin") <=> Has(trace', "WiFi.softAP")
            /\ Has(trace', "dns.stop") <=> (ConnectedEvent(trace') /\ configMode)
            /\ Has(trace', "dns.begin") => dnsRunning'
            /\ Has(trace', "dns.stop") => dnsRunning /\ ~dnsRunning']_vars

C5_Witness == Portal /\ ~configMode /\ ~dnsRunning /\ Has(trace, "dns.stop")

\* C6: connect() with no stored SSID starts nothing and leaves the state IDLE;
\* connect() from IDLE with a stored SSID moves to CONNECTING; startup enters
\* CONFIG mode exactly when its connect() returned false.
C6_ConnectResult ==
    [][(Portal /\ (BeginCall(trace') \/ OpIs(trace', "connect"))) =>
          LET stored == IF BeginCall(trace') THEN eepromSsid ELSE cfgSsid
          IN /\ stored = "" =>
                   /\ wmState' = wmState /\ attempts' = attempts
                   /\ staBegun' = staBegun /\ ~Has(trace', "WiFi.begin")
                   /\ BeginCall(trace') => wmState' = "IDLE"
             /\ (stored # "" /\ wmState = "IDLE") =>
                   wmState' = "CONNECTING" /\ Has(trace', "WiFi.begin") /\ wmTicks' = 0
             /\ BeginCall(trace') =>
                   /\ configMode' <=> Has(trace', "connect.rejected")
                   /\ configMode' <=> stored = ""]_vars

C6_Witness == Portal /\ StartupDone /\ wmState = "CONNECTING" /\ ~configMode

\* C7: an attempt that sees no link for WIFI_TIMEOUT polls has failed and the
\* orchestrator is then in CONFIG mode with the access point up; a disconnected
\* event does not enter CONFIG mode.
C7_Original ==
    [][/\ TimedOut(trace') =>
            /\ configMode' /\ apActive'
            /\ Portal => wmState' = "FAILED" /\ wmTicks = WIFI_TIMEOUT - 1
            /\ ~Portal => timeout = WIFI_TIMEOUT
       /\ Has(trace', "cb.onWiFiDisconnected") =>
            configMode' = configMode /\ ~Has(trace', "WiFi.softAP")]_vars

\* C8: the connected callback runs exactly on the poll that takes the state from
\* CONNECTING to CONNECTED with the link up, once.
C8_ConnectedOncePerLinkUp ==
    [][Portal =>
          /\ ConnectedEvent(trace') <=>
                /\ OpIs(trace', "update") /\ pc' = "loop"
                /\ wmState = "CONNECTING" /\ wmState' = "CONNECTED" /\ linkUp
          /\ Count(trace', "cb.onWiFiConnected") <= 1
          /\ (wmState # "CONNECTED" /\ wmState' = "CONNECTED") => ConnectedEvent(trace')]_vars

C8_Witness == Portal /\ ConnectedEvent(trace) /\ wmState = "CONNECTED" /\ linkUp

\* C9: connect() while CONNECTING changes nothing of the attempt; connect() while
\* CONNECTED leaves the state CONNECTED; within one boot an attempt leaves
\* CONNECTING only by link-up or by timeout.
C9_ConnectRejected ==
    [][Portal =>
          /\ (OpIs(trace', "connect") /\ wmState \in {"CONNECTING", "CONNECTED"}) =>
                /\ wmState' = wmState /\ wmTicks' = wmTicks /\ attempts' = attempts
                /\ ~Has(trace', "WiFi.begin")
          /\ (wmState = "CONNECTING" /\ wmState' # "CONNECTING" /\ pc' = "loop") =>
                \/ Has(trace', "attempt.linkUp") /\ wmState' = "CONNECTED"
                \/ TimedOut(trace') /\ wmState' = "FAILED"]_vars

C9_Witness ==
    Portal /\ OpIs(trace, "connect") /\ Has(trace, "connect.rejected")
    /\ wmState = "CONNECTING" /\ wmTicks > 0

\* C10: a restart is preceded, in the same request, by the 200 acknowledgment
\* with success = true; for a factory reset the order is acknowledgment, clear
\* credentials, restart.
C10_AckBeforeRestart ==
    (Portal /\ Has(trace, "ESP.restart")) =>
        /\ Has(trace, "handleRestart") \/ Has(trace, "handleReset")
        /\ Count(trace, "webServer.send") = 1
        /\ Before(trace, "webServer.send", "ESP.restart")
        /\ resp.code = 200 /\ resp.body = [kind |-> "ack", success |-> TRUE]
        /\ Has(trace, "handleReset") =>
              /\ Before(trace, "webServer.send", "config.reset")
              /\ Before(trace, "config.reset", "ESP.restart")
              /\ eepromSsid = ""
        /\ Has(trace, "handleRestart") => ~Has(trace, "config.reset")

C10_Witness ==
    Portal /\ pc = "constructed" /\ Has(trace, "handleReset") /\ Has(trace, "ESP.restart")

\* C11: a factory reset leaves no stored SSID behind, clearing it before the
\* restart, and the startup that follows it ends in CONFIG mode with the access
\* point up and no connection attempt started.
C11_ResetThenConfig ==
    [][Portal =>
          /\ Has(trace', "handleReset") =>
                /\ eepromSsid' = "" /\ cfgSsid' = "" /\ pc' = "constructed"
                /\ Before(trace', "config.reset", "ESP.restart")
          /\ (pc = "constructed" /\ Has(trace, "handleReset")) =>
                /\ pc' = "loop" /\ configMode' /\ apActive' /\ dnsRunning'
                /\ ~staBegun' /\ attempts' = 0 /\ wmState' = "IDLE"
                /\ ~Has(trace', "WiFi.begin")]_vars

C11_Witness ==
    Portal /\ StartupDone /\ served.method = "POST" /\ served.name = "reset"
    /\ configMode /\ eepromSsid = ""

\* A tick of the portal build has served a request (the request is served').
Served == Portal /\ OpIs(trace', "update") /\ served'.method # "NONE"
ProbeServed ==
    /\ Served /\ served'.method = "GET" /\ ~served'.api
    /\ served'.name \in ProbeNames /\ served'.suffix = ""

\* C12: a probe path is answered with a 302 to the portal's own root address
\* when the mode is CONFIG, and with no 302 when it is not.
C12_Original ==
    [][ProbeServed =>
          IF configMode
          THEN resp'.code = 302 /\ resp'.body.location = "http://ap-ip/"
          ELSE resp'.code # 302]_vars

\* The CONFIG half of C12 alone.
ProbeRedirectsInConfig ==
    [][(ProbeServed /\ configMode) =>
          resp'.code = 302 /\ resp'.body.location = "http://ap-ip/"]_vars

\* Endpoint names of the HTTP surface.
EndpointNames == GetNames \cup PostNames
IsPage(r) == r.code = 200 /\ r.ctype = "text/html" /\ r.body.kind = "page"
IsJson404(r) == r.code = 404 /\ r.ctype = "application/json" /\ r.body.kind = "error"

\* C13: a request that matches no route gets the structured 404 JSON body if
\* its path is an endpoint name, bare or under /api/; any other unmatched
\* request gets the provisioning page exactly when the mode is CONFIG.
C13_Original ==
    [][(Served /\ Route(served') = "handleNotFound") =>
          IF served'.api \/ served'.name \in EndpointNames
          THEN IsJson404(resp')
          ELSE IsPage(resp') <=> configMode]_vars

\* What handleNotFound does do: the 404 JSON body under /api/ and for the bare
\* names its list has, the page for everything else, in either mode.
NotFoundAsCoded ==
    [][(Served /\ Route(served') = "handleNotFound") =>
          IF served'.api \/ served'.name \in (EndpointNames \ {"device", "scan", "network", "led"})
          THEN IsJson404(resp')
          ELSE IsPage(resp')]_vars

LedServed == Served /\ served'.name = "led" /\ served'.suffix = ""
\* POST /led: 200 and the indicator set for a body with "state", 400 and the
\* indicator untouched for any other body.
LedPostAnswer ==
    IF served'.body \in {"state_true", "state_false"}
    THEN /\ resp'.code = 200
         /\ resp'.body = [kind |-> "led", success |-> TRUE,
                          led |-> (served'.body = "state_true")]
         /\ Has(trace', "led.setState")
    ELSE /\ resp'.code = 400
         /\ ~Has(trace', "led.setState")

\* C14: /led answers POST with "state" by 200, success and the state set, POST
\* without body or without "state" by 400 and no change, every other method by
\* 405.
C14_Original ==
    [][LedServed =>
          IF served'.method = "POST" THEN LedPostAnswer ELSE resp'.code = 405]_vars

\* The POST half of C14 alone.
LedPostAsCoded == [][(LedServed /\ served'.method = "POST") => LedPostAnswer]_vars

\* Core(s): s without the record of the last operation.
Core(s) == [s EXCEPT !.trace = <<>>, !.resp = NoResp, !.served = NoReq]
SettingsPosted ==
    /\ Served /\ served'.name = "settings" /\ served'.suffix = ""
    /\ served'.method = "POST"

\* C15: POST /settings with a body that is not JSON is answered 400 with an
\* error field and the adapter is not called; with valid JSON and no adapter it
\* is answered with success = false; in both cases the handler changes nothing
\* of the device, the credentials or anything else.
C15_SettingsRejected ==
    [][SettingsPosted =>
          /\ served'.body \in {"none", "invalid"} =>
                /\ resp'.code = 400 /\ resp'.ctype = "application/json"
                /\ resp'.body = [kind |-> "error", error |-> "Invalid JSON"]
                /\ ~Has(trace', "device.updateSettings")
                /\ Core(handleClient(Cur, served', FALSE)) = Core(Cur)
          /\ (served'.body \notin {"none", "invalid"} /\ ~device) =>
                /\ resp'.code = 200
                /\ resp'.body = [kind |-> "settings-post", success |-> FALSE]
                /\ ~Has(trace', "device.updateSettings")
                /\ ~Has(trace', "null.device")
                /\ Core(handleClient(Cur, served', FALSE)) = Core(Cur)]_vars

C15_Witness ==
    /\ Portal /\ OpIs(trace, "update") /\ ~device
    /\ served.method = "POST" /\ served.name = "settings" /\ served.body = "no_state"
    /\ resp.code = 200 /\ resp.body = [kind |-> "settings-post", success |-> FALSE]

\* The payload a handler falls back to without an adapter.
DefaultPayload(r, q) ==
    /\ r.code \in {200, 204, 302, 400, 404}
    /\ Route(q) \in {"presence", "status", "data", "device"} =>
          r.code = 200 /\ r.body = [kind |-> q.name, from |-> "default"]
    /\ (Route(q) = "settings" /\ q.method = "GET") =>
          r.code = 200 /\ r.body = [kind |-> "settings", from |-> "error"]
    /\ (Route(q) = "settings" /\ q.method = "POST") =>
          \/ r.code = 400
          \/ r.code = 200 /\ r.body = [kind |-> "settings-post", success |-> FALSE]

C17_RoundTrip ==
    [][/\ eeprom' # eeprom =>
             \A i \in ObjSize..(EepromSize - 1) : eeprom'[i] = eeprom[i]
       /\ Last(trace') = "setSSID" =>
             /\ \A i \in SsidSize..(ObjSize - 1) : mem'[i] = mem[i]
             /\ getSSID(mem') = Take(cfgArgs'.ssid, SsidSize - 1)
       /\ Last(trace') = "setPassword" =>
             /\ \A i \in 0..(SsidSize - 1) : mem'[i] = mem[i]
             /\ getPassword(mem') = Take(cfgArgs'.pass, PasswordSize - 1)
       /\ (Last(trace') = "loadConfig" /\ Len(trace') > 1) =>
             /\ getSSID(mem') = Take(cfgArgs'.ssid, SsidSize - 1)
             /\ getPassword(mem') = Take(cfgArgs'.pass, PasswordSize - 1)
             /\ mem'[SsidSize - 1] = 0 /\ mem'[ObjSize - 1] = 0
             /\ Len(cfgArgs'.ssid) < SsidSize => getSSID(mem') = cfgArgs'.ssid
             /\ Len(cfgArgs'.pass) < PasswordSize => getPassword(mem') = cfgArgs'.pass]_vars

\* A round trip through a new object with both inputs too long.
C17_Witness ==
    /\ trace = <<"setSSID", "setPassword", "saveConfig", "construct", "loadConfig">>
    /\ Len(cfgArgs.ssid) > SsidSize /\ Len(cfgArgs.pass) > PasswordSize
    /\ Len(getSSID(mem)) = SsidSize - 1 /\ Len(getPassword(mem)) = PasswordSize - 1

\* clearConfig() leaves the store unconfigured, in the object and in the EEPROM.
ClearedIsUnconfigured ==
    (Len(trace) > 0 /\ Last(trace) = "clearConfig") =>
        ~isConfigured(mem) /\ eeprom[0] = 0 /\ eeprom[SsidSize] = 0

\* Requests other than restart and reset, and those served by the read-only
\* handlers.
Lifecycle(r) == Route(r) \in {"restart", "reset"}
ReadOnly(r) ==
    \/ Route(r) \in {"connected", "presence", "status", "data", "device", "network"}
    \/ Route(r) = "settings" /\ r.method = "GET"

\* C18: for every request but restart and reset, serving it twice in a row
\* leaves the state serving it once leaves, with the same answer; the read-only
\* handlers leave the state as it was (mode flag, connection state, stored
\* credentials and indicator included).
C18_HandlersIdempotent ==
    (Portal /\ webStarted /\ pc = "loop") =>
        \A r \in HttpRequests \ {NoReq} : \A d \in DevOkFor(r) :
            LET once == handleClient(Cur, r, d)
                twice == handleClient(once, r, d)
            IN /\ ~Lifecycle(r) => Core(twice) = Core(once) /\ twice.resp = once.resp
               /\ ReadOnly(r) => Core(once) = Core(Cur)

\* GET /connected served by two ticks in a row while the portal is in
\* configuration mode.
C18_Witness ==
    /\ Portal /\ OpIs(trace, "update") /\ Has(trace, "request.again")
    /\ served = Req("GET", FALSE, "connected") /\ resp.code = 200
    /\ configMode /\ apActive /\ ~linkUp /\ ~resp.body.connected

\* The same request on the other path: /x for /api/x and /api/x for /x.
Twin(r) == [r EXCEPT !.api = ~r.api]
SameAnswer(r) == \E d \in BOOLEAN : resp' = handleClient(Cur, Twin(r), d).resp

\* C19: whatever the method, a request to an endpoint's bare path and the same
\* request to its /api/ path get the same status code and body in the same
\* state.
C19_Original ==
    [][(Served /\ served'.name \in EndpointNames /\ served'.suffix = "") =>
          SameAnswer(served')]_vars

\* What the routes do give: the two paths answer alike whenever the method is
\* one the endpoint is registered for.
AliasesAgreeWhenRouted ==
    [][(Served /\ served'.name \in EndpointNames /\ Route(served') # "handleNotFound") =>
          /\ Route(Twin(served')) = Route(served')
          /\ SameAnswer(served')]_vars

\* C20: GET /connected, on either path, answers 200 application/json with
\* the state of the station link: connected false, address "0.0.0.0" and an
\* empty SSID while the link is down, connected true with the station's
\* address and the SSID joined while it is up.
C20_ConnectedReportsLink ==
    [][(Served /\ Route(served') = "connected") =>
          /\ resp'.code = 200 /\ resp'.ctype = "application/json"
          /\ resp'.body.connected = linkUp
          /\ ~linkUp => resp'.body.ip = "0.0.0.0" /\ resp'.body.ssid = ""
          /\ linkUp => /\ resp'.body.ip = "sta-ip"
                       /\ resp'.body.ssid = cfgSsid /\ cfgSsid # ""]_vars

\* Booted with no SSID stored: the access point is up, the link is down and
\* GET /connected has just said so.
C20_Witness ==
    /\ Portal /\ OpIs(trace, "update") /\ served = Req("GET", FALSE, "connected")
    /\ eepromSsid = "" /\ apActive /\ ~linkUp
    /\ resp.code = 200 /\ ~resp.body.connected /\ resp.body.ip = "0.0.0.0"

\* The link up and reported.
ConnectedReportedUp ==
    /\ Portal /\ served = Req("GET", TRUE, "connected") /\ linkUp
    /\ resp.code = 200 /\ resp.body.connected /\ resp.body.ssid # ""

\* A tick of the portal build that ran to its end (no restart in it).
FullTick == Portal /\ OpIs(trace', "update") /\ pc' = "loop"
\* In t, every e comes before every f.
AllBefore(t, e, f) ==
    \A i, j \in DOMAIN t : (t[i] = e /\ t[j] = f) => i < j

\* The order of the steps of a tick, which every tick keeps.
TickOrder(t) ==
    /\ t[2] = "led.update" \/ (t[2] = "request.again" /\ t[3] = "led.update")
    /\ Count(t, "led.update") = 1 /\ Count(t, "webServer.handleClient") = 1
    /\ Count(t, "wifiManager.update") = 1
    /\ AllBefore(t, "led.update", "dns.processRequests")
    /\ AllBefore(t, "dns.processRequests", "webServer.handleClient")
    /\ AllBefore(t, "webServer.handleClient", "wifiManager.update")
    /\ AllBefore(t, "wifiManager.update", "device.update")
    /\ AllBefore(t, "device.update", "MDNS.update")
    /\ AllBefore(t, "wifiManager.update", "MDNS.update")

\* C21: a tick refreshes the indicator, services DNS only in CONFIG mode,
\* services HTTP, advances the Connection Manager, and advances the Device
\* Adapter and the network discovery only in NORMAL mode with the station
\* connected, in this order.
C21_Original ==
    [][FullTick =>
          /\ TickOrder(trace')
          /\ Has(trace', "dns.processRequests") => configMode
          /\ Has(trace', "device.update") => ~configMode' /\ linkUp
          /\ Has(trace', "MDNS.update") => ~configMode' /\ linkUp]_vars

\* What update() does: the order is kept; DNS is serviced in CONFIG mode or with
\* the access-point bit set; the adapter is advanced in NORMAL mode whether the
\* station is connected or not, the network discovery only when it is.
TickAsCoded ==
    [][FullTick =>
          /\ TickOrder(trace')
          /\ Has(trace', "dns.processRequests") <=> (configMode \/ HasAP(wifiMode))
          /\ Has(trace', "device.update") <=> (~configMode' /\ device)
          /\ Has(trace', "MDNS.update") <=> (~configMode' /\ linkUp)]_vars

\* A startup has called connect(): the Connection Manager's in the portal
\* build (started or refused), connectToWiFi() in the legacy build.
ConnectInvoked(t) ==
    /\ OpIs(t, "begin") \/ OpIs(t, "setup")
    /\ Has(t, "WiFi.begin") \/ Has(t, "connect.rejected")
\* An attempt is outstanding.
Connecting == IF Portal THEN wmState = "CONNECTING" ELSE pc = "connecting"

\* C22: the startup that calls connect() goes on, in the same call, to start
\* the HTTP server and to initialise the device, whatever becomes of the
\* attempt, and the program is in its loop, serving HTTP requests, while the
\* attempt is outstanding.
C22_Original ==
    [][/\ ConnectInvoked(trace') =>
            /\ pc' = "loop" /\ webStarted'
            /\ device => (deviceInitialized' \/ devStarted')
       /\ Connecting' => pc' = "loop" /\ webStarted'
       /\ (OpIs(trace', "update") /\ wmState = "CONNECTING" /\ served'.method # "NONE") =>
            Has(trace', "webServer.send")]_vars

\* The same for the builds on lib/lovi-captive-portal, where begin() calls
\* connect() first and starts the server and the device after it.
PortalStartupNonBlocking ==
    [][Portal =>
          /\ ConnectInvoked(trace') =>
                /\ pc' = "loop" /\ webStarted'
                /\ device => deviceInitialized' /\ Has(trace', "device.begin")
                /\ AllBefore(trace', "WiFi.begin", "webServer.begin")
                /\ AllBefore(trace', "connect.rejected", "webServer.begin")
                /\ ~Has(trace', "attempt.linkUp") /\ ~Has(trace', "attempt.timeout")
          /\ Connecting' => pc' = "loop" /\ webStarted'
          /\ (OpIs(trace', "update") /\ wmState = "CONNECTING" /\ served'.method # "NONE") =>
                Has(trace', "webServer.send")]_vars

\* The operation has entered CONFIG mode.
EntersConfig(t) == Has(t, "enterConfigMode") \/ Has(t, "cb.onEnterAPMode")

\* C23: in CONFIG mode the radio is in access-point+station mode, never
\* access-point only, and entering CONFIG mode from any state sets it so.
C23_Original ==
    [][/\ configMode' => wifiMode' = "AP_STA"
       /\ (EntersConfig(trace') /\ pc' # "constructed") =>
             configMode' /\ wifiMode' = "AP_STA"]_vars

\* The same for the builds on lib/lovi-captive-portal: startAccessPoint() sets
\* WIFI_AP_STA, and while the flag is set nothing takes a radio bit away.
PortalConfigIsApSta ==
    [][Portal =>
          /\ configMode' => wifiMode' = "AP_STA" /\ apActive'
          /\ (EntersConfig(trace') /\ pc' # "constructed") =>
                configMode' /\ wifiMode' = "AP_STA"
          /\ HasAP(wifiMode') => configMode']_vars

\* HTTP servers begun on port 80 since the boot: the portal's web server, and
\* in the legacy build those made by _setupWebServer() plus the one
\* Device::startAPIServer(80) makes in APIServer::begin().
Listeners ==
    IF Portal THEN (IF webStarted THEN 1 ELSE 0)
    ELSE allocs.webServer + (IF devStarted THEN 1 ELSE 0)

\* C24: one HTTP listener per process lifetime: the running program has exactly
\* one, no operation creates a second or starts the server again, and a
\* change of mode leaves it as it is.
C24_Original ==
    [][/\ Listeners' <= 1
       /\ pc' = "loop" => Listeners' = 1
       /\ Count(trace', "webServer.begin") <= 1
       /\ (webStarted /\ pc' # "constructed") =>
             webStarted' /\ ~Has(trace', "webServer.begin")]_vars

\* The portal firmware: begin() builds the routes and starts the server once,
\* and neither mode transition touches it.
PortalOneListener ==
    [][fw = "portal" =>
          /\ pc' = "loop" => Listeners' = 1
          /\ Count(trace', "webServer.begin") <= 1
          /\ Has(trace', "webServer.begin") <=> OpIs(trace', "begin")
          /\ (webStarted /\ pc' # "constructed") =>
                webStarted' /\ ~Has(trace', "webServer.begin")]_vars

DisconnectedEvent(t) == Has(t, "cb.onWiFiDisconnected")

\* C25: a disconnected event comes after a successful connection, in NORMAL
\* mode; its handler notifies the Device Adapter once, if there is one, and
\* leaves everything else as it is: the mode stays NORMAL, the access point
\* and the redirector stay down, and no connect() is issued.
C25_DisconnectedOnlyNotifies ==
    [][(Portal /\ DisconnectedEvent(trace')) =>
          /\ wmState = "CONNECTED" /\ ~linkUp /\ wmState' \in {"IDLE", "FAILED"}
          /\ ~configMode /\ ~configMode'
          /\ ~apActive /\ ~apActive' /\ ~dnsRunning /\ ~dnsRunning'
          /\ wifiMode' = wifiMode /\ attempts' = attempts
          /\ ~Has(trace', "WiFi.begin") /\ ~Has(trace', "connect.rejected")
          /\ ~Has(trace', "WiFi.softAP") /\ ~Has(trace', "dns.begin")
          /\ ~EntersConfig(trace')
          /\ Count(trace', "cb.onWiFiDisconnected") = 1
          /\ Count(trace', "onWiFiDisconnected") = (IF device THEN 1 ELSE 0)
          /\ LET h == onWiFiDisconnected(Cur)
             IN /\ [h EXCEPT !.trace = <<>>] = [Cur EXCEPT !.trace = <<>>]
                /\ SubSeq(h.trace, Len(trace) + 1, Len(h.trace)) =
                      IF device THEN <<"cb.onWiFiDisconnected", "onWiFiDisconnected">>
                      ELSE <<"cb.onWiFiDisconnected">>]_vars

\* The link was lost after a connection and the adapter has been told; the
\* portal is still in NORMAL mode with the access point down.
C25_Witness ==
    /\ Portal /\ OpIs(trace, "update") /\ DisconnectedEvent(trace)
    /\ Has(trace, "onWiFiDisconnected") /\ device
    /\ ~configMode /\ ~apActive /\ ~dnsRunning /\ wmState \in {"IDLE", "FAILED"}

\* The attempt has got its link and the connected event is not delivered yet.
ConnectedPending == wmState = "CONNECTING" /\ linkUp

\* C26: while the connected event of a successful attempt is undelivered no
\* further attempt is started: a connect() in between starts nothing, the next
\* tick delivers the event, and an attempt is started only from IDLE or FAILED.
C26_ConnectedBeforeNextConnect ==
    [][Portal =>
          /\ (ConnectedPending /\ pc' = "loop") =>
                /\ ~Has(trace', "WiFi.begin") /\ attempts' = attempts
                /\ OpIs(trace', "connect") => ConnectedPending' /\ wmTicks' = wmTicks
                /\ OpIs(trace', "update") =>
                      /\ Count(trace', "cb.onWiFiConnected") = 1
                      /\ wmState' = "CONNECTED"
          /\ Has(trace', "WiFi.begin") =>
                /\ wmState \in {"IDLE", "FAILED"} /\ wmState' = "CONNECTING"
                /\ ~ConnectedEvent(trace')
          /\ (wmState' = "CONNECTED" /\ wmState # "CONNECTED") => ConnectedEvent(trace')]_vars

\* connect() was called while the connected event was still to be delivered,
\* and started nothing.
C26_Witness ==
    /\ Portal /\ OpIs(trace, "connect") /\ Has(trace, "connect.rejected")
    /\ ConnectedPending /\ attempts = 1

\* C27: CONFIG mode is entered only with no attempt outstanding: at startup
\* when connect() started none for want of credentials, or on the poll on
\* which the attempt has become FAILED by timeout; the operation that enters
\* CONFIG mode starts no attempt and does not end in CONNECTING.
C27_NoConfigEntryWhileConnecting ==
    [][(Portal /\ EntersConfig(trace')) =>
          /\ wmState' # "CONNECTING" /\ ~Has(trace', "WiFi.begin")
          /\ attempts' = attempts /\ configMode'
          /\ \/ /\ OpIs(trace', "begin") \/ OpIs(trace', "setup")
                /\ eepromSsid = "" /\ wmState' = "IDLE" /\ attempts' = 0
                /\ BeginCall(trace') => Before(trace', "connect.rejected", "enterConfigMode")
             \/ /\ OpIs(trace', "update") /\ wmState = "CONNECTING" /\ wmState' = "FAILED"
                /\ Before(trace', "attempt.timeout", "cb.onEnterAPMode")
                /\ Count(trace', "cb.onEnterAPMode") = 1]_vars

\* An attempt has timed out and CONFIG mode was entered on that poll, the
\* attempt being FAILED.
C27_Witness ==
    /\ Portal /\ OpIs(trace, "update") /\ Has(trace, "cb.onEnterAPMode")
    /\ wmState = "FAILED" /\ cfgSsid # "" /\ attempts >= 1 /\ configMode /\ apActive

\* C28: the stored credentials are written by the settings-save operation and
\* by the factory reset and by nothing else; a /save request without both
\* arguments is answered 400 and writes nothing.
C28_OnlySaveAndResetWrite ==
    [][/\ Has(trace', "config.save") =>
            /\ fw = "legacy" /\ OpIs(trace', "loop")
            /\ served'.name = "save" /\ served'.args = "both"
            /\ eepromSsid' = served'.ssid /\ resp'.code = 200
       /\ Has(trace', "config.reset") =>
            /\ Portal /\ OpIs(trace', "update") /\ Has(trace', "handleReset")
            /\ eepromSsid' = ""
       /\ eepromSsid' # eepromSsid =>
            Has(trace', "config.save") \/ Has(trace', "config.reset")
       /\ (fw = "legacy" /\ OpIs(trace', "loop") /\ served'.name = "save"
           /\ served'.args = "missing") =>
            /\ resp'.code = 400 /\ eepromSsid' = eepromSsid /\ cfgSsid' = cfgSsid
            /\ pc' = "loop" /\ ~Has(trace', "ESP.restart")]_vars

\* /save without its arguments was refused and the stored SSID is still there.
C28_Witness ==
    /\ fw = "legacy" /\ OpIs(trace, "loop") /\ served.name = "save"
    /\ served.args = "missing" /\ resp.code = 400 /\ eepromSsid = "home"

\* The stored credentials have been replaced by a /save with both arguments.
SaveWrites ==
    /\ fw = "legacy" /\ Has(trace, "config.save") /\ served.args = "both"
    /\ eepromSsid = served.ssid /\ pc = "constructed"

\* Byte by byte: the EEPROM is written by saveConfig() and clearConfig() only.
StoreWrittenBySaveOnly ==
    [][eeprom' # eeprom => Last(trace') \in {"saveConfig", "clearConfig"}]_vars

\* Names a client may ask the redirector for.
DnsNames == {"connectivitycheck.gstatic.com", "captive.apple.com", "example.org"}

\* C29: with the access point up, the redirector answers a query for any name
\* with the access point's own address, the fixed address the access point
\* was configured with; the queries a tick services get that address, and it
\* stays the same for as long as the mode stays CONFIG.
C29_DnsAnswersApAddress ==
    [][/\ (apActive' /\ configMode') =>
            /\ dnsRunning' /\ apAddr' = ApAddress
            /\ \A n \in DnsNames : DnsAnswer(dnsRunning', dnsAddr', n) = apAddr'
       /\ Has(trace', "dns.processRequests") =>
            /\ apActive /\ dnsRunning
            /\ \A n \in DnsNames : DnsAnswer(dnsRunning, dnsAddr, n) = ApAddress
       /\ (configMode /\ configMode' /\ pc' # "constructed") =>
            dnsAddr' = dnsAddr /\ apAddr' = apAddr]_vars

\* A tick in CONFIG mode has serviced DNS with the redirector on the access
\* point's address, the station being connected to nothing.
C29_Witness ==
    /\ Portal /\ OpIs(trace, "update") /\ Has(trace, "dns.processRequests")
    /\ configMode /\ apActive /\ dnsRunning /\ dnsAddr = ApAddress /\ ~linkUp

\* The same in the legacy build, where the address is read back from the radio.
LegacyDnsOnApAddress ==
    /\ fw = "legacy" /\ OpIs(trace, "loop") /\ Has(trace, "dns.processRequests")
    /\ dnsAddr = ApAddress /\ apAddr = ApAddress

\* host is name with every space replaced by a hyphen and every letter in
\* lower case.
Derived(host, name) ==
    /\ Len(host) = Len(name)
    /\ \A i \in DOMAIN name :
          /\ name[i] = " " => host[i] = "-"
          /\ (\E k \in DOMAIN UpperCase : name[i] = UpperCase[k]) =>
                \E k \in DOMAIN UpperCase : name[i] = UpperCase[k] /\ host[i] = LowerCase[k]
          /\ (name[i] # " " /\ \A k \in DOMAIN UpperCase : name[i] # UpperCase[k]) =>
                host[i] = name[i]

\* C30: the network discovery is started only on a successful connection,
\* under the device's display name with spaces replaced by hyphens and
\* letters in lower case, and the hostname set at startup is derived the same
\* way.
C30_Original ==
    [][/\ (mdnsStarted' /\ ~mdnsStarted) =>
             linkUp /\ Has(trace', "attempt.linkUp")
       /\ mdnsStarted' => Derived(mdnsHost', DeviceName(fw))
       /\ Has(trace', "wifiManager.setHostname") => Derived(wifiHost', DeviceName(fw))
       /\ (mdnsStarted' /\ wifiHost' # <<>>) => mdnsHost' = wifiHost']_vars

\* The same for the builds on lib/lovi-captive-portal, where begin() and
\* onWiFiConnected() derive the hostname alike.
PortalHostnameDerived ==
    [][Portal =>
          /\ (mdnsStarted' /\ ~mdnsStarted) =>
                linkUp /\ ConnectedEvent(trace') /\ device
          /\ mdnsStarted' => Derived(mdnsHost', DeviceName(fw))
          /\ Has(trace', "wifiManager.setHostname") => Derived(wifiHost', DeviceName(fw))
          /\ (mdnsStarted' /\ wifiHost' # <<>>) => mdnsHost' = wifiHost']_vars

\* The portal firmware advertises "Lovi Device 2" as lovi-device-2.
PortalAdvertised ==
    /\ fw = "portal" /\ mdnsStarted
    /\ mdnsHost = <<"l", "o", "v", "i", "-", "d", "e", "v", "i", "c", "e", "-", "2">>

\* C31: the last mode notification the Device Adapter got says CONFIG exactly
\* when the mode flag is set, after startup and after every event, and no exit
\* notification is delivered by an operation that leaves the portal in CONFIG
\* mode.
C31_Original ==
    [][(Portal /\ device /\ pc' = "loop") =>
          /\ devMode' = "config" <=> configMode'
          /\ (Has(trace', "onExitConfigMode") /\ configMode') => ~configMode
          /\ (Has(trace', "onExitConfigMode") /\ Has(trace', "onEnterConfigMode")) =>
                Before(trace', "onExitConfigMode", "onEnterConfigMode")]_vars

\* What the code keeps: the two agree after every event of the loop, and after
\* a startup that found an SSID stored; a startup in begin() with no SSID
\* ends with the flag set and the adapter told NORMAL.
DeviceModeAsCoded ==
    [][(Portal /\ device /\ pc' = "loop") =>
          /\ (BeginCall(trace') /\ eepromSsid = "") =>
                configMode' /\ devMode' = "normal"
          /\ (BeginCall(trace') /\ eepromSsid # "") =>
                ~configMode' /\ devMode' = "normal"
          /\ (~BeginCall(trace') /\ (EntersConfig(trace') \/ ConnectedEvent(trace'))) =>
                (devMode' = "config" <=> configMode')]_vars

\* A POST /led has put the indicator out of its automatic pattern.
LedOverridden(p) == p \in {"ON", "OFF"}

\* C32: with no /led override issued, the indicator shows AP_MODE whenever the
\* portal is in CONFIG mode, whether it got there at startup with no
\* credentials or after a timeout, and shows CONNECTED after a "connected"
\* event.
C32_Original ==
    [][(Portal /\ pc' = "loop" /\ ~LedOverridden(ledPattern')) =>
          /\ configMode' => ledPattern' = "AP_MODE"
          /\ ConnectedEvent(trace') => ledPattern' = "CONNECTED"]_vars

\* What the code keeps: the pattern is AP_MODE after an entry into CONFIG mode
\* through the access-point callback and CONNECTED after a "connected" event;
\* a startup that enters CONFIG mode itself leaves the pattern as it was.
LedPatternAsCoded ==
    [][(Portal /\ pc' = "loop" /\ ~LedOverridden(ledPattern')) =>
          /\ (Has(trace', "cb.onEnterAPMode") /\ configMode') =>
                ledPattern' = "AP_MODE"
          /\ ConnectedEvent(trace') => ledPattern' = "CONNECTED"
          /\ (BeginCall(trace') /\ configMode') => ledPattern' = "WIFI_CONNECT"
          /\ (OpIs(trace', "setup") /\ configMode') => ledPattern' = "NONE"]_vars

----------------------------------------------------------------------------
\* The objects of the legacy firmware on their own: begin(),
\* enterConfigMode() and update() called in any order on a constructed
\* CaptivePortal, and the start and stop calls of lib/lovi-core in any order
\* on a Device and on an APIServer.

Call(s, name) == [s EXCEPT !.trace = <<name>>, !.resp = NoResp, !.served = NoReq,
                           !.pc = "loop"]

InitApi ==
    /\ \E ssid \in SSIDs : InitFrom(Constructed("legacy", TRUE, ssid))
    /\ mem = ConfigManagerCtor(0)
    /\ eeprom = [i \in 0..(EepromSize - 1) |-> 0]
    /\ cfgArgs = NoArgs
    /\ core = CoreInit

PortalBegin ==
    /\ fw = "legacy"
    /\ Install(legacyBegin(Call(Cur, "begin")))

PortalEnterConfigMode ==
    /\ fw = "legacy"
    /\ Install(legacyEnterConfigMode(Call(Cur, "enterConfigMode()")))

PortalUpdate ==
    /\ pc = "loop"
    /\ \E req \in LegacyRequests : Install(loop(Cur, req))

portalVars == <<sysVars, trace, mem, eeprom, cfgArgs>>

\* last and prev: the last call made on these objects and the one before it.
CoreCall(c, name) == [c EXCEPT !.prev = c.last, !.last = name]

DeviceStartMDNS ==
    /\ \E ok \in BOOLEAN : core' = CoreCall(startMDNS(core, ok), "startMDNS")
    /\ UNCHANGED portalVars

DeviceStopMDNS ==
    /\ core' = CoreCall(stopMDNS(core), "stopMDNS")
    /\ UNCHANGED portalVars

DeviceStartAPIServer ==
    /\ core' = CoreCall(startAPIServer(core), "startAPIServer")
    /\ UNCHANGED portalVars

DeviceStopAPIServer ==
    /\ core' = CoreCall(stopAPIServer(core), "stopAPIServer")
    /\ UNCHANGED portalVars

ServerBegin ==
    /\ core' = CoreCall(APIServerBegin(core, "api"), "begin")
    /\ UNCHANGED portalVars

ServerStop ==
    /\ core' = CoreCall(APIServerStop(core, "api"), "stop")
    /\ UNCHANGED portalVars

NextApi ==
    \/ PortalBegin
    \/ PortalEnterConfigMode
    \/ PortalUpdate
    \/ DeviceStartMDNS
    \/ DeviceStopMDNS
    \/ DeviceStartAPIServer
    \/ DeviceStopAPIServer
    \/ ServerBegin
    \/ ServerStop

SpecApi == InitApi /\ [][NextApi]_vars

\* The state of the portal object and of what it drives, without the record
\* of the last call.
PortalState ==
    <<started, configMode, allocs, webStarted, dnsRunning, dnsAddr, apAddr,
      wifiMode, apActive, cfgSsid, eepromSsid, ledPattern>>

\* C33: in the legacy portal a second begin() and a second enterConfigMode()
\* change nothing, in any order of the two calls every collaborator is
\* allocated at most once, and configMode, once true, stays true.
C33_Original ==
    [][/\ (OpIs(trace', "begin") /\ started) => PortalState' = PortalState
       /\ (OpIs(trace', "enterConfigMode()") /\ configMode) =>
             PortalState' = PortalState
       /\ \A what \in DOMAIN allocs : allocs'[what] <= 1
       /\ (configMode /\ pc' = "loop") => configMode']_vars

\* What the code keeps: each call is idempotent and configMode is never reset
\* while the firmware runs, and the DNS server is allocated at most once; the
\* first begin() and the first enterConfigMode() each allocate a
\* ConfigManager, an LEDController and a web server of their own.
LegacyCallsAsCoded ==
    [][/\ (OpIs(trace', "begin") /\ started) => PortalState' = PortalState
       /\ (OpIs(trace', "enterConfigMode()") /\ configMode) =>
             PortalState' = PortalState
       /\ allocs'.dnsServer <= 1
       /\ \A what \in {"configManager", "ledController", "webServer"} :
             allocs'[what] = (IF started' THEN 1 ELSE 0) + (IF configMode' THEN 1 ELSE 0)
       /\ (configMode /\ pc' = "loop") => configMode']_vars

\* The lovi-core objects without the record of the calls made.
CoreState(c) ==
    <<c.mdns, c.apiServer, c.mdnsStarted, c.apiServerStarted, c.api, c.live>>

Exists(ptr) == ptr # NullPtr
Servers(c) ==
    (IF isRunning(c.api) THEN 1 ELSE 0)
    + (IF Exists(c.apiServer) /\ isRunning(c.apiServer) THEN 1 ELSE 0)

\* Flags and objects agree, and no object is alive that no pointer holds.
CoreConsistent(c) ==
    /\ c.mdnsStarted <=> Exists(c.mdns)
    /\ c.apiServerStarted <=> Exists(c.apiServer)
    /\ c.apiServerStarted => isRunning(c.apiServer)
    /\ c.live.MDNSAdvertiser = (IF Exists(c.mdns) THEN 1 ELSE 0)
    /\ c.live.APIServer = 1 + (IF Exists(c.apiServer) THEN 1 ELSE 0)
    /\ c.live.ESP8266WebServer = Servers(c)

====
